---- MODULE Spec2Model ----
(***************************************************************************)
(* A model of the zwavejs2mqtt Gateway (lib/Gateway.js): the Discovered    *)
(* Map, the per-node descriptor maps, the Topic-Value Map and the          *)
(* subscribed topic levels, driven by the device-driver events, the        *)
(* transport events and the socket "hass" api calls.                       *)
(*                                                                         *)
(* Strings are sequences of tokens (words of letters, single digits and    *)
(* single separator characters), so that prefix matches, '/' counting and  *)
(* sanitizing are computed and not assumed.  JavaScript objects that are   *)
(* shared by reference (the descriptors) live in a heap keyed by object    *)
(* ids.                                                                    *)
(***************************************************************************)
EXTENDS Integers, Sequences, FiniteSets, TLC

(***************************************************************************)
(* The state.                                                              *)
(***************************************************************************)

VARIABLES
  config,       \* the gateway configuration (fixed once the gateway started)
  nodes,        \* zwave.nodes: node id -> [added, ready, loc, values, value]
  hass,         \* node.hassDevices of each node: a list of [key, oid]
  allDevices,   \* the device template registry: deviceId -> list of templates
  heap,         \* the descriptor objects: object id -> descriptor
  discovered,   \* this.discovered: value id -> object id of its descriptor
  topicValues,  \* this.topicValues: topic -> [n, v, conf]
  topicLevels,  \* this.topicLevels
  out,          \* what the last handler published and subscribed, in order
  subs,         \* the pattern of every subscribe call made so far, in order
  calls,        \* the number of "hass" api calls made so far
  last,         \* the last operation and what it was applied to
  app,          \* app.js: the restarting flag, the settings requests, gw
  mqtt,         \* the MqttClient: client, closed, toSubscribe, the broker
  store         \* the UI store: state.nodes and nodesMap

\* The variables of the gateway.
gwVars == <<config, nodes, hass, allDevices, heap, discovered, topicValues,
            topicLevels, out, subs, calls, last>>

vars == <<config, nodes, hass, allDevices, heap, discovered, topicValues,
          topicLevels, out, subs, calls, last, app, mqtt, store>>

\* The specifications of the gateway leave the web application, the MQTT
\* client and the UI store out.
OnlyGateway == app = <<>> /\ mqtt = <<>> /\ store = <<>>

(***************************************************************************)
(* The device network the driver reports.                                  *)
(***************************************************************************)

\* Node ids. 1 and 11 are chosen so that one decimal id is a prefix of the other.
NodeIds == {1, 2, 11}

\* The networks the gateway may be attached to: a light and a plug, or a
\* thermostat.
Networks == {{1, 11}, {2}}

\* The decimal digits of a node id, most significant first (String(node.id)).
RECURSIVE Digits(_)
Digits(n) ==
  LET d == <<"0", "1", "2", "3", "4", "5", "6", "7", "8", "9">>
  IN IF n < 10 THEN <<d[n + 1]>> ELSE Digits(n \div 10) \o <<d[(n % 10) + 1]>>

\* Node attributes (Z2MNode): name, deviceId, deviceClass, and the loc the
\* node has when it is added.
\* A string is a sequence of tokens: words of allowed characters, single
\* digits, and the single characters " ", "/", "-", "_" and the special ones;
\* <<>> is the empty (or missing) string.
NodeInfo(n) ==
  CASE n = 1 -> [name |-> <<>>, loc |-> <<>>, deviceId |-> "dev-light",
                 generic |-> 17, specific |-> 1]
    [] n = 2 -> [name |-> <<>>, loc |-> <<"Kitchen">>, deviceId |-> "dev-thermo",
                 generic |-> 8, specific |-> 6]
    [] n = 3 -> [name |-> <<"Living", " ", "Room", "/", "Lamp">>, loc |-> <<>>,
                 deviceId |-> "dev-lamp", generic |-> 17, specific |-> 1]
    [] n = 4 -> [name |-> <<"Lamp">>, loc |-> <<"2", " ", "Rooms">>,
                 deviceId |-> "dev-lamp", generic |-> 17, specific |-> 1]
    [] n = 5 -> [name |-> <<"Desk", "#", "1">>, loc |-> <<"First", " ", "Floor">>,
                 deviceId |-> "dev-lamp", generic |-> 17, specific |-> 1]
    [] n = 6 -> [name |-> <<"4", "2">>, loc |-> <<>>,
                 deviceId |-> "dev-lamp", generic |-> 17, specific |-> 1]
    [] n = 7 -> [name |-> <<>>, loc |-> <<"Hall">>,
                 deviceId |-> "dev-lamp", generic |-> 17, specific |-> 1]
    [] n = 8 -> [name |-> <<>>, loc |-> <<>>, deviceId |-> "dev-thermo",
                 generic |-> 8, specific |-> 6]
    [] OTHER -> [name |-> <<>>, loc |-> <<>>, deviceId |-> "dev-plug",
                 generic |-> 16, specific |-> 1]

\* Value ids without the node prefix: commandClass-endpoint-property[-key].
V_target == <<"3", "8", "-", "0", "-", "targetValue">>
V_current == <<"3", "8", "-", "0", "-", "currentValue">>
V_color == <<"5", "1", "-", "0", "-", "currentColor">>
V_targetColor == <<"5", "1", "-", "0", "-", "targetColor">>
V_switch == <<"3", "7", "-", "0", "-", "currentValue">>
V_switchTarget == <<"3", "7", "-", "0", "-", "targetValue">>
V_temp == <<"4", "9", "-", "0", "-", "Air", " ", "temperature">>
V_dew == <<"4", "9", "-", "0", "-", "Dew", " ", "point">>
V_soil == <<"4", "9", "-", "0", "-", "Soil", " ", "temperature">>
V_mode == <<"6", "4", "-", "0", "-", "mode">>
V_setpoint1 == <<"6", "7", "-", "0", "-", "setpoint", "-", "1">>
V_setpoint2 == <<"6", "7", "-", "0", "-", "setpoint", "-", "2">>
V_mode1 == <<"6", "4", "-", "1", "-", "mode">>
V_mode2 == <<"6", "4", "-", "2", "-", "mode">>
V_mode3 == <<"6", "4", "-", "3", "-", "mode">>
V_mode4 == <<"6", "4", "-", "4", "-", "mode">>
V_level1 == <<"3", "8", "-", "1", "-", "currentValue">>
V_level1Target == <<"3", "8", "-", "1", "-", "targetValue">>
V_color1 == <<"5", "1", "-", "1", "-", "currentColor">>
V_targetColor1 == <<"5", "1", "-", "1", "-", "targetColor">>
V_switch1 == <<"3", "7", "-", "1", "-", "currentValue">>
V_switch1Target == <<"3", "7", "-", "1", "-", "targetValue">>
V_switch2 == <<"3", "7", "-", "2", "-", "currentValue">>
V_switch2Target == <<"3", "7", "-", "2", "-", "targetValue">>
V_toggle == <<"4", "1", "-", "0", "-", "currentValue">>
V_toggleTarget == <<"4", "1", "-", "0", "-", "targetValue">>
V_binToggle == <<"4", "0", "-", "0", "-", "currentValue">>
V_binToggleTarget == <<"4", "0", "-", "0", "-", "targetValue">>
V_sensorLock == <<"4", "8", "-", "0", "-", "lock">>
V_sensorMotion == <<"4", "8", "-", "0", "-", "motion">>
V_scene == <<"9", "1", "-", "0", "-", "scene", "-", "0", "0", "1">>
V_text == <<"1", "1", "9", "-", "0", "-", "name">>
V_raw == <<"1", "1", "2", "-", "0", "-", "raw">>
V_duration == <<"3", "8", "-", "0", "-", "duration">>

\* The device ordinals of the thermostat mode value's states (0 off, 1 heat,
\* 2 cool, 3 auto); the thermostat has a setpoint for heat and for cool.
ModeStates == <<0, 1, 2, 3>>

\* The states of a thermostat with the energy saving modes (11 energy heat,
\* 12 energy cool), and of one with fan (6), dry (8) and auto changeover (10).
EnergyModeStates == <<0, 1, 2, 11, 12>>
ManyModeStates == <<0, 1, 2, 3, 6, 8, 10>>

\* Static value metadata (Z2MValueId) by value id without the node prefix.
\* propertyKey <<>> stands for undefined, targetValue <<>> for none; sensor and
\* objectId are what Constants.sensorType gives for a Multilevel Sensor value;
\* states are the device ordinals of a list value's states; type, min and max
\* are the value's type and, for a number, its range.
ValueMeta(v) ==
  LET plain == [commandClass |-> 0, endpoint |-> 0, property |-> <<>>,
                propertyKey |-> <<>>, isCurrentValue |-> FALSE,
                targetValue |-> <<>>, list |-> FALSE, writeable |-> FALSE,
                stateless |-> FALSE, ccSpecific |-> FALSE,
                sensor |-> <<>>, objectId |-> <<>>, states |-> <<>>,
                type |-> "number", min |-> 0, max |-> 99]
  IN CASE v = V_current ->
            [plain EXCEPT !.commandClass = 38, !.property = <<"currentValue">>,
                          !.isCurrentValue = TRUE, !.targetValue = V_target]
       [] v = V_target ->
            [plain EXCEPT !.commandClass = 38, !.property = <<"targetValue">>,
                          !.writeable = TRUE]
       [] v = V_switch ->
            [plain EXCEPT !.commandClass = 37, !.property = <<"currentValue">>,
                          !.isCurrentValue = TRUE, !.targetValue = V_switchTarget,
                          !.type = "boolean"]
       [] v = V_switchTarget ->
            [plain EXCEPT !.commandClass = 37, !.property = <<"targetValue">>,
                          !.writeable = TRUE, !.type = "boolean"]
       [] v = V_switch1 ->
            [plain EXCEPT !.commandClass = 37, !.endpoint = 1,
                          !.property = <<"currentValue">>, !.isCurrentValue = TRUE,
                          !.targetValue = V_switch1Target, !.type = "boolean"]
       [] v = V_switch1Target ->
            [plain EXCEPT !.commandClass = 37, !.endpoint = 1,
                          !.property = <<"targetValue">>, !.writeable = TRUE,
                          !.type = "boolean"]
       [] v = V_switch2 ->
            [plain EXCEPT !.commandClass = 37, !.endpoint = 2,
                          !.property = <<"currentValue">>, !.isCurrentValue = TRUE,
                          !.targetValue = V_switch2Target, !.type = "boolean"]
       [] v = V_switch2Target ->
            [plain EXCEPT !.commandClass = 37, !.endpoint = 2,
                          !.property = <<"targetValue">>, !.writeable = TRUE,
                          !.type = "boolean"]
       [] v = V_toggle ->
            [plain EXCEPT !.commandClass = 41, !.property = <<"currentValue">>,
                          !.isCurrentValue = TRUE, !.targetValue = V_toggleTarget]
       [] v = V_toggleTarget ->
            [plain EXCEPT !.commandClass = 41, !.property = <<"targetValue">>,
                          !.writeable = TRUE]
       [] v = V_binToggle ->
            [plain EXCEPT !.commandClass = 40, !.property = <<"currentValue">>,
                          !.isCurrentValue = TRUE, !.targetValue = V_binToggleTarget,
                          !.type = "boolean"]
       [] v = V_binToggleTarget ->
            [plain EXCEPT !.commandClass = 40, !.property = <<"targetValue">>,
                          !.writeable = TRUE, !.type = "boolean"]
       [] v = V_text ->
            [plain EXCEPT !.commandClass = 119, !.property = <<"name">>,
                          !.writeable = TRUE, !.type = "string"]
       [] v = V_raw ->
            [plain EXCEPT !.commandClass = 112, !.property = <<"raw">>,
                          !.writeable = TRUE, !.type = "any"]
       [] v = V_duration ->
            [plain EXCEPT !.commandClass = 38, !.property = <<"duration">>,
                          !.writeable = TRUE, !.type = "duration"]
       [] v = V_color ->
            [plain EXCEPT !.commandClass = 51, !.property = <<"currentColor">>,
                          !.targetValue = V_targetColor]
       [] v = V_targetColor ->
            [plain EXCEPT !.commandClass = 51, !.property = <<"targetColor">>,
                          !.writeable = TRUE]
       [] v = V_level1 ->
            [plain EXCEPT !.commandClass = 38, !.endpoint = 1,
                          !.property = <<"currentValue">>, !.isCurrentValue = TRUE,
                          !.targetValue = V_level1Target]
       [] v = V_level1Target ->
            [plain EXCEPT !.commandClass = 38, !.endpoint = 1,
                          !.property = <<"targetValue">>, !.writeable = TRUE]
       [] v = V_color1 ->
            [plain EXCEPT !.commandClass = 51, !.endpoint = 1,
                          !.property = <<"currentColor">>,
                          !.targetValue = V_targetColor1]
       [] v = V_targetColor1 ->
            [plain EXCEPT !.commandClass = 51, !.endpoint = 1,
                          !.property = <<"targetColor">>, !.writeable = TRUE]
       [] v = V_temp ->
            [plain EXCEPT !.commandClass = 49,
                          !.property = <<"Air", " ", "temperature">>,
                          !.ccSpecific = TRUE, !.sensor = <<"temperature">>,
                          !.objectId = <<"air">>]
       [] v = V_dew ->
            [plain EXCEPT !.commandClass = 49,
                          !.property = <<"Dew", " ", "point">>,
                          !.ccSpecific = TRUE, !.sensor = <<"temperature">>,
                          !.objectId = <<"dew_point">>]
       [] v = V_soil ->
            [plain EXCEPT !.commandClass = 49,
                          !.property = <<"Soil", " ", "temperature">>,
                          !.ccSpecific = TRUE, !.sensor = <<"temperature">>,
                          !.objectId = <<"soil">>]
       [] v = V_mode ->
            [plain EXCEPT !.commandClass = 64, !.property = <<"mode">>,
                          !.list = TRUE, !.writeable = TRUE,
                          !.states = ModeStates]
       [] v = V_mode1 ->
            [plain EXCEPT !.commandClass = 64, !.endpoint = 1, !.property = <<"mode">>,
                          !.list = TRUE, !.writeable = TRUE, !.states = <<0, 2>>]
       [] v = V_mode2 ->
            [plain EXCEPT !.commandClass = 64, !.endpoint = 2, !.property = <<"mode">>,
                          !.list = TRUE, !.writeable = TRUE, !.states = <<1, 2>>]
       [] v = V_mode3 ->
            [plain EXCEPT !.commandClass = 64, !.endpoint = 3, !.property = <<"mode">>,
                          !.list = TRUE, !.writeable = TRUE, !.states = EnergyModeStates]
       [] v = V_mode4 ->
            [plain EXCEPT !.commandClass = 64, !.endpoint = 4, !.property = <<"mode">>,
                          !.list = TRUE, !.writeable = TRUE, !.states = ManyModeStates]
       [] v = V_setpoint1 ->
            [plain EXCEPT !.commandClass = 67, !.property = <<"setpoint">>,
                          !.propertyKey = <<"1">>, !.writeable = TRUE]
       [] v = V_setpoint2 ->
            [plain EXCEPT !.commandClass = 67, !.property = <<"setpoint">>,
                          !.propertyKey = <<"2">>, !.writeable = TRUE]
       [] v = V_scene ->
            [plain EXCEPT !.commandClass = 91, !.property = <<"scene">>,
                          !.propertyKey = <<"0", "0", "1">>, !.stateless = TRUE]
       [] v = V_sensorLock ->
            [plain EXCEPT !.commandClass = 48, !.property = <<"lock">>,
                          !.type = "boolean"]
       [] v = V_sensorMotion ->
            [plain EXCEPT !.commandClass = 48, !.property = <<"motion">>,
                          !.type = "boolean"]
       [] OTHER -> plain

\* The values a node has when it is added (insertion order of node.values).
BaseValues(n) ==
  CASE n = 1 -> <<V_target, V_current>>
    [] n = 2 -> <<V_temp, V_mode, V_setpoint1, V_setpoint2>>
    [] OTHER -> <<V_switchTarget, V_switch>>

\* Values the driver may add to a node later on (values added after ready).
LateValues(n) == IF n = 1 THEN {V_color} ELSE {}

\* The values of a node the driver reports changes of.
EventValues(n) ==
  CASE n = 1 -> {V_target, V_current, V_color}
    [] n = 2 -> {V_mode, V_setpoint1}
    [] OTHER -> {V_switchTarget, V_switch}

\* The values a valueChanged event may report for a value, and the `changed`
\* flags it may carry (the flag is only read for list values).
ValueRange(v) == IF v = V_mode THEN {0, 1, 2, 3} ELSE {0}
ChangedRange(v) == IF ValueMeta(v).list THEN BOOLEAN ELSE {TRUE}

(***************************************************************************)
(* Strings and topics.                                                     *)
(***************************************************************************)

DigitTokens == {"0", "1", "2", "3", "4", "5", "6", "7", "8", "9"}

\* The characters sanitizeTopic strips: neither a word, a digit, "-", "_", "/"
\* nor whitespace.
SpecialTokens == {"#", "+", "."}

\* !isNaN(parseInt(str)): the string starts, after leading whitespace and an
\* optional sign, with a digit.
RECURSIVE ParsesAsInt(_)
ParsesAsInt(str) ==
  IF str = <<>> THEN FALSE
  ELSE IF Head(str) = " " THEN ParsesAsInt(Tail(str))
  ELSE IF Head(str) \in {"-", "+"}
       THEN Len(str) > 1 /\ str[2] \in DigitTokens
       ELSE Head(str) \in DigitTokens

\* str.replace(/\//g, '-') unless the string parses as a number.
removeSlash(str) ==
  IF ParsesAsInt(str) THEN str
  ELSE [i \in 1..Len(str) |-> IF str[i] = "/" THEN "-" ELSE str[i]]

\* Drops the tokens of SpecialTokens from a string.
RECURSIVE StripSpecial(_)
StripSpecial(str) ==
  IF str = <<>> THEN <<>>
  ELSE (IF Head(str) \in SpecialTokens THEN <<>> ELSE <<Head(str)>>)
       \o StripSpecial(Tail(str))

\* utils.sanitizeTopic(str, sanitizeSlash).
sanitizeTopic(str, sanitizeSlash) ==
  IF ParsesAsInt(str) \/ str = <<>> THEN str
  ELSE LET s1 == IF sanitizeSlash THEN removeSlash(str) ELSE str
           s2 == [i \in 1..Len(s1) |-> IF s1[i] = " " THEN "_" ELSE s1[i]]
       IN StripSpecial(s2)

\* Array.prototype.join('/') of a list of strings.
RECURSIVE JoinSlash(_)
JoinSlash(parts) ==
  IF parts = <<>> THEN <<>>
  ELSE IF Len(parts) = 1 THEN parts[1]
  ELSE parts[1] \o <<"/">> \o JoinSlash(Tail(parts))

\* topic.split('/').length: one more than the number of "/" in the topic.
TopicLevelCount(topic) == 1 + Cardinality({i \in 1..Len(topic) : topic[i] = "/"})

\* '+'.repeat(levels).split('').join('/').
WildcardPattern(levels) == JoinSlash([i \in 1..levels |-> <<"+">>])

\* Whether `pre` is a prefix of `str` (String.prototype.startsWith).
StartsWith(str, pre) ==
  Len(pre) <= Len(str) /\ SubSeq(str, 1, Len(pre)) = pre

\* str.replace(pat, ''): removes the first occurrence of pat, if any.
RECURSIVE RemoveFirst(_, _)
RemoveFirst(str, pat) ==
  IF Len(str) < Len(pat) THEN str
  ELSE IF StartsWith(str, pat) THEN SubSeq(str, Len(pat) + 1, Len(str))
  ELSE <<Head(str)>> \o RemoveFirst(Tail(str), pat)

\* The id of a value: nodeId + '-' + the id within the node.
ValueIdOf(n, v) == Digits(n) \o <<"-">> \o v

\* getIdWithoutNode(valueId).
getIdWithoutNode(n, v) == RemoveFirst(ValueIdOf(n, v), Digits(n) \o <<"-">>)

NODE_PREFIX == <<"nodeID", "_">>

\* node.name ? node.name : NODE_PREFIX + node.id
NameOrPrefix(n) ==
  IF NodeInfo(n).name # <<>> THEN NodeInfo(n).name ELSE NODE_PREFIX \o Digits(n)

\* getNodeName(node, ignoreLoc).
getNodeName(n, ignoreLoc) ==
  (IF ~ignoreLoc /\ nodes[n].loc # <<>> THEN nodes[n].loc \o <<"-">> ELSE <<>>)
  \o NameOrPrefix(n)

(***************************************************************************)
(* Gateway configuration and the topic resolver.                           *)
(***************************************************************************)

\* The per-value override table of the manual configuration (config.values);
\* an empty topic, postOperation or device_class is one that is not set, and
\* retain is "true", "false" or "undefined".
OverrideTable ==
  << [device |-> "dev-light", valueId |-> V_current, topic |-> <<"dimmer">>,
      postOperation |-> <<>>, retain |-> "undefined",
      device_class |-> <<>>],
     [device |-> "dev-light", valueId |-> V_target,
      topic |-> <<"dimmer", "/", "target">>, postOperation |-> <<>>, retain |-> "undefined",
      device_class |-> <<>>] >>

\* The gateway configurations the model starts from (GatewayConfig): type 0 is
\* the valueID addressing, 1 named, 2 manual; payloadType 2 is "just value".
Configs ==
  { [hassDiscovery |-> TRUE, type |-> 0, payloadType |-> 2, values |-> <<>>],
    [hassDiscovery |-> TRUE, type |-> 2, payloadType |-> 0, values |-> OverrideTable],
    [hassDiscovery |-> FALSE, type |-> 0, payloadType |-> 0, values |-> <<>>] }

\* The gateway options the model keeps fixed.
nodeNames == FALSE
ignoreLoc == FALSE
ignoreStatus == FALSE

\* MqttClient config.prefix and the gateway's discoveryPrefix.
MqttPrefix == <<"zwave">>
DiscoveryPrefix == <<"homeassistant">>

\* MqttClient.getTopic(topic, set).
getTopic(topic, set) ==
  MqttPrefix \o <<"/">> \o topic \o (IF set THEN <<"/", "set">> ELSE <<>>)

\* Constants.commandClass(cc): the class name used by the named addressing.
commandClassName(cc) ==
  CASE cc = 38 -> <<"switch", "_", "multilevel">>
    [] cc = 51 -> <<"switch", "_", "color">>
    [] cc = 49 -> <<"sensor", "_", "multilevel">>
    [] cc = 64 -> <<"thermostat", "_", "mode">>
    [] cc = 67 -> <<"thermostat", "_", "setpoint">>
    [] OTHER -> <<"unknownClass", "_">> \o Digits(cc)

\* The first entry of config.values for the node's device and the value, or 0:
\* values.filter(v => v.device === node.deviceId).find(v => v.value.id === vID).
FindValueConf(cfg, n, v) ==
  LET hits == {i \in 1..Len(cfg.values) :
                 /\ cfg.values[i].device = NodeInfo(n).deviceId
                 /\ cfg.values[i].valueId = getIdWithoutNode(n, v)}
  IN IF hits = {} THEN 0 ELSE CHOOSE i \in hits : \A j \in hits : i <= j

\* The topic levels, had the values table been read in the manual
\* configuration only.
ValueTopicLevelsComputed(cfg, n, v) ==
  IF cfg.type = 2 /\ FindValueConf(cfg, n, v) # 0
     /\ cfg.values[FindValueConf(cfg, n, v)].topic # <<>>
  THEN <<NameOrPrefix(n), cfg.values[FindValueConf(cfg, n, v)].topic>>
  ELSE CASE cfg.type = 1 ->
              <<NameOrPrefix(n), commandClassName(ValueMeta(v).commandClass),
                <<"endpoint", "_">> \o Digits(ValueMeta(v).endpoint),
                removeSlash(ValueMeta(v).property)>>
         [] cfg.type = 0 ->
              <<Digits(n), Digits(ValueMeta(v).commandClass),
                Digits(ValueMeta(v).endpoint), removeSlash(ValueMeta(v).property)>>
         [] OTHER -> <<>>

\* The topic levels valueTopic computes before the location is added, given
\* the value's attributes m and the index c of its override in config.values.
ValueTopicLevelsOf(cfg, n, m, c) ==
  IF c # 0 /\ cfg.values[c].topic # <<>>
  THEN <<NameOrPrefix(n), cfg.values[c].topic>>
  ELSE CASE cfg.type = 1 ->
              <<NameOrPrefix(n), commandClassName(m.commandClass),
                <<"endpoint", "_">> \o Digits(m.endpoint),
                removeSlash(m.property)>>
              \o (IF m.propertyKey # <<>> THEN <<removeSlash(m.propertyKey)>> ELSE <<>>)
         [] cfg.type = 0 ->
              <<IF ~nodeNames THEN Digits(n) ELSE NameOrPrefix(n),
                Digits(m.commandClass), Digits(m.endpoint),
                removeSlash(m.property)>>
              \o (IF m.propertyKey # <<>> THEN <<removeSlash(m.propertyKey)>> ELSE <<>>)
         [] OTHER -> <<>>

\* The topic levels valueTopic computes before the location is added.
ValueTopicLevels(cfg, n, v) ==
  ValueTopicLevelsOf(cfg, n, ValueMeta(v), FindValueConf(cfg, n, v))

\* JavaScript null and undefined where a string is expected: concatenating
\* them into a string gives the words "null" and "undefined".
NullStr == <<"null">>
UndefStr == <<"undefined">>

\* topic.map(sanitizeTopic).join('/'): every level sanitized, slashes kept.
JoinSanitized(levels) ==
  JoinSlash([i \in 1..Len(levels) |-> sanitizeTopic(levels[i], FALSE)])

\* The topic of the levels valueTopic computed, the location put first; null
\* when there are no levels.
TopicOfLevels(levels, loc) ==
  IF levels = <<>> THEN NullStr
  ELSE JoinSanitized(IF loc # <<>> /\ ~ignoreLoc THEN <<loc>> \o levels ELSE levels)

\* Gateway.prototype.valueTopic(node, valueId, false) of a node whose
\* location is loc: the topic, or null.
valueTopicAt(cfg, n, v, loc) == TopicOfLevels(ValueTopicLevels(cfg, n, v), loc)

\* Gateway.prototype.valueTopic(node, valueId, false): the topic, or null.
valueTopicString(cfg, n, v) == valueTopicAt(cfg, n, v, nodes[n].loc)

\* Whether a value id is a key of node.values (`present` lists node.values).
HasValue(present, v) == \E i \in 1..Len(present) : present[i] = v

\* The topic of the target value tv of a value: undefined when the value has
\* no target value on the node, null when the target has no topic.
TargetTopic(cfg, n, tv, present) ==
  IF tv # <<>> /\ HasValue(present, tv)
  THEN valueTopicString(cfg, n, tv) ELSE UndefStr

\* The object valueTopic returns for the topic t.
Topics(t, conf, targetTopic) ==
  [ok |-> t # NullStr, topic |-> t, conf |-> conf, targetTopic |-> targetTopic]

\* Gateway.prototype.valueTopic(node, valueId, true): ok is FALSE when the
\* result is null; conf is the index of the value's override in config.values,
\* 0 for none.
valueTopic(cfg, n, v, present) ==
  Topics(valueTopicString(cfg, n, v), FindValueConf(cfg, n, v),
         TargetTopic(cfg, n, ValueMeta(v).targetValue, present))

\* The levels of a node's topic: the location, then the node's name or id.
NodeTopicLevels(cfg, n, loc) ==
  (IF loc # <<>> /\ ~ignoreLoc THEN <<loc>> ELSE <<>>)
  \o <<CASE cfg.type \in {1, 2} -> NameOrPrefix(n)
         [] cfg.type = 0 -> IF ~nodeNames THEN Digits(n) ELSE NameOrPrefix(n)
         [] OTHER -> NODE_PREFIX \o Digits(n)>>

\* Gateway.prototype.nodeTopic(node).
nodeTopic(cfg, n) == JoinSanitized(NodeTopicLevels(cfg, n, nodes[n].loc))

\* No object.
NoOid == <<>>

\* A discovery payload field that is absent, and the boolean sentinels of the
\* configuration templates ("fill with the computed topic" / "delete").
Absent == <<"#absent">>
TrueStr == <<"#true">>
FalseStr == <<"#false">>

\* '{{ value_json.value }}' and what publishDiscovery rewrites it to.
ValueJson == "value_json.value"
ValueTemplate == <<"{{", ValueJson, "}}">>
StateValueTemplate == <<"{{", "OFF", "if", ValueJson, "==0", "else", "ON", "}}">>

\* The fields of a discovery payload the model keeps; all are strings.
EmptyPayload ==
  [state_topic |-> Absent, command_topic |-> Absent,
   brightness_state_topic |-> Absent, brightness_command_topic |-> Absent,
   rgb_state_topic |-> Absent, rgb_command_topic |-> Absent,
   mode_state_topic |-> Absent, mode_command_topic |-> Absent,
   current_temperature_topic |-> Absent,
   temperature_state_topic |-> Absent, temperature_command_topic |-> Absent,
   json_attributes_topic |-> Absent,
   value_template |-> Absent, state_value_template |-> Absent,
   brightness_value_template |-> Absent,
   payload_on |-> Absent, payload_off |-> Absent]

PayloadFields == DOMAIN EmptyPayload

\* A descriptor (HassDevice). mode_map lists [key, value] pairs (mode token,
\* device ordinal) and setpoint_topic [key, value] pairs (device ordinal,
\* setpoint value id), both in the order JavaScript enumerates the keys.
EmptyDevice ==
  [type |-> "", object_id |-> <<>>, values |-> <<>>, persistent |-> FALSE,
   ignoreDiscovery |-> FALSE, discoveryTopic |-> <<>>,
   discovery_payload |-> EmptyPayload, modes |-> <<>>, mode_map |-> <<>>,
   setpoint_topic |-> <<>>, default_setpoint |-> UndefStr]

\* Lookup in a list of [key, value] pairs; `none` when the key is missing.
PairHas(m, k) == \E i \in 1..Len(m) : m[i].key = k
PairGet(m, k, none) ==
  IF PairHas(m, k) THEN m[CHOOSE i \in 1..Len(m) : m[i].key = k].value ELSE none

\* The gateway's mutable state as one record, threaded through a handler.
Gw == [heap |-> heap, hass |-> hass, allDevices |-> allDevices,
       discovered |-> discovered, topicValues |-> topicValues,
       topicLevels |-> topicLevels, out |-> <<>>, subs |-> subs]

\* Ordered maps (JavaScript objects iterate in insertion order).
MapHas(m, k) == \E i \in 1..Len(m) : m[i].key = k
MapGet(m, k) == m[CHOOSE i \in 1..Len(m) : m[i].key = k].oid
MapPut(m, k, o) ==
  IF MapHas(m, k)
  THEN [i \in 1..Len(m) |-> IF m[i].key = k THEN [key |-> k, oid |-> o] ELSE m[i]]
  ELSE Append(m, [key |-> k, oid |-> o])
MapDel(m, k) == SelectSeq(m, LAMBDA e : e.key # k)

\* Functions as maps with a changing domain.
FunPut(f, k, x) == [y \in DOMAIN f \cup {k} |-> IF y = k THEN x ELSE f[y]]
FunDel(f, k) == [y \in DOMAIN f \ {k} |-> f[y]]

\* A new object id for a descriptor of node n registered under key.
NewOid(g, n, key) ==
  <<n, key, CHOOSE i \in 0..Cardinality(DOMAIN g.heap) :
              /\ <<n, key, i>> \notin DOMAIN g.heap
              /\ \A j \in 0..(i - 1) : <<n, key, j>> \in DOMAIN g.heap>>

\* A message handed to the transport client.
\* retain is the retain option handed to MqttClient.publish: "true", "false",
\* or "unset" when none is given and the client's configured retain applies.
Msg(kind, topic, oid, removal, payload) ==
  [kind |-> kind, topic |-> topic, oid |-> oid, removal |-> removal,
   payload |-> payload, retain |-> "unset"]

WithRetain(m, retain) == [m EXCEPT !.retain = retain]

Emit(g, m) == [g EXCEPT !.out = Append(@, m)]

(***************************************************************************)
(* The Discovered-Device store: setDiscovery and publishDiscovery.         *)
(***************************************************************************)

\* Gateway.prototype.setDiscovery, from the k-th value of the descriptor on.
RECURSIVE setDiscoveryFrom(_, _, _, _, _, _)
setDiscoveryFrom(disc, n, values, oid, deleteDevice, k) ==
  IF k > Len(values) THEN disc
  ELSE setDiscoveryFrom(
         IF deleteDevice /\ (Digits(n) \o <<"-">> \o values[k]) \in DOMAIN disc
         THEN FunDel(disc, Digits(n) \o <<"-">> \o values[k])
         ELSE FunPut(disc, Digits(n) \o <<"-">> \o values[k], oid),
         n, values, oid, deleteDevice, k + 1)

setDiscovery(g, n, oid, deleteDevice) ==
  [g EXCEPT !.discovered =
     setDiscoveryFrom(@, n, g.heap[oid].values, oid, deleteDevice, 1)]

\* p[k].replace(/value_json\.value/g, template) for one string.
ReplaceValueJson(str, template) ==
  [i \in 1..Len(str) |-> IF str[i] = ValueJson THEN template ELSE str[i]]

\* The rewrite, had the template been value whatever the payload holds.
JustValuePayloadPlain(p) ==
  [f \in PayloadFields |->
     IF f \in {"payload_on", "payload_off"} THEN p[f]
     ELSE ReplaceValueJson(p[f], "value")]

\* The rewrite of the payload's strings under payloadType 2 ("just value");
\* payload_on and payload_off are booleans, not strings.
JustValuePayload(p) ==
  [f \in PayloadFields |->
     IF f \in {"payload_on", "payload_off"} THEN p[f]
     ELSE ReplaceValueJson(p[f],
            IF p.payload_on # Absent /\ p.payload_off # Absent
            THEN "value == 'true'" ELSE "value")]

\* this.mqtt.publish(hassDevice.discoveryTopic, ...) on the discovery prefix.
emitDiscovery(g, oid, deleteDevice) ==
  Emit(g, WithRetain(Msg("discovery", g.heap[oid].discoveryTopic, oid, deleteDevice,
                         g.heap[oid].discovery_payload), "false"))

\* The payload rewrite and the message, had ignoreDiscovery not been tested.
sendDiscoveryAlways(g, oid, deleteDevice) ==
  emitDiscovery(
    [g EXCEPT !.heap[oid].discovery_payload =
       IF config.payloadType = 2 THEN JustValuePayload(@) ELSE @],
    oid, deleteDevice)

\* The part of publishDiscovery that is skipped for an ignored descriptor: the
\* payload is rewritten in place under payloadType 2 and the message is sent.
sendDiscovery(g, oid, deleteDevice) ==
  IF g.heap[oid].ignoreDiscovery THEN g
  ELSE emitDiscovery(
         [g EXCEPT !.heap[oid].discovery_payload =
            IF config.payloadType = 2 THEN JustValuePayload(@) ELSE @],
         oid, deleteDevice)

\* if (update) this.zwave.updateDevice(hassDevice, nodeId, deleteDevice): the
\* driver stores the descriptor in the node's descriptor map under
\* type_object_id, or drops it from the map.
updateDevice(g, n, oid, deleteDevice, update) ==
  IF update /\ MapHas(g.hass[n], <<g.heap[oid].type, "_">> \o g.heap[oid].object_id)
  THEN [g EXCEPT !.hass[n] =
          IF deleteDevice
          THEN MapDel(@, <<g.heap[oid].type, "_">> \o g.heap[oid].object_id)
          ELSE MapPut(@, <<g.heap[oid].type, "_">> \o g.heap[oid].object_id, oid)]
  ELSE g

\* Gateway.prototype.publishDiscovery(hassDevice, nodeId, deleteDevice, update).
publishDiscovery(g, n, oid, deleteDevice, update) ==
  updateDevice(sendDiscovery(setDiscovery(g, n, oid, deleteDevice), oid, deleteDevice),
               n, oid, deleteDevice, update)

(***************************************************************************)
(* The Discovery Engine.                                                   *)
(***************************************************************************)

\* The command classes the discovery dispatches on (CommandClasses).
CC_Binary_Switch == 37
CC_Binary_Toggle_Switch == 40
CC_Multilevel_Switch == 38
CC_Multilevel_Toggle_Switch == 41
CC_Color_Switch == 51
CC_Binary_Sensor == 48
CC_Multilevel_Sensor == 49
CC_Thermostat_Mode == 64
CC_Thermostat_Setpoint == 67

\* Whether Constants.specificDeviceClass(generic, specific) names one of the
\* motor-control classes (class A, B, C motor control or multiposition motor)
\* of the generic class Multilevel Switch.
IsMotorControl(generic, specific) == generic = 17 /\ specific \in {3, 5, 6, 7}

\* hassCfg.light_dimmer, light_rgb_dimmer, cover_position, sensor_generic and
\* thermostat (hass/configurations.js), in the fields the model keeps.
Cfg_light_dimmer ==
  [EmptyDevice EXCEPT
     !.type = "light", !.object_id = <<"dimmer">>,
     !.discovery_payload =
        [EmptyPayload EXCEPT !.command_topic = TrueStr, !.state_topic = TrueStr,
           !.state_value_template = StateValueTemplate,
           !.brightness_command_topic = TrueStr,
           !.brightness_state_topic = TrueStr,
           !.brightness_value_template = ValueTemplate]]

Cfg_light_rgb_dimmer ==
  [EmptyDevice EXCEPT
     !.type = "light", !.object_id = <<"rgb", "_", "dimmer">>,
     !.discovery_payload =
        [EmptyPayload EXCEPT !.command_topic = TrueStr, !.state_topic = TrueStr,
           !.state_value_template = StateValueTemplate,
           !.brightness_command_topic = TrueStr,
           !.brightness_state_topic = TrueStr,
           !.brightness_value_template = ValueTemplate,
           !.rgb_command_topic = TrueStr, !.rgb_state_topic = TrueStr]]

Cfg_switch ==
  [EmptyDevice EXCEPT
     !.type = "switch", !.object_id = <<"switch">>,
     !.discovery_payload =
        [EmptyPayload EXCEPT !.payload_off = FalseStr, !.payload_on = TrueStr,
           !.value_template = ValueTemplate, !.command_topic = TrueStr]]

Cfg_cover_position ==
  [EmptyDevice EXCEPT
     !.type = "cover", !.object_id = <<"position">>,
     !.discovery_payload =
        [EmptyPayload EXCEPT !.command_topic = TrueStr, !.state_topic = TrueStr,
           !.value_template = <<"{{", ValueJson, "|", "round(0)", "}}">>]]

Cfg_sensor_generic ==
  [EmptyDevice EXCEPT
     !.type = "sensor", !.object_id = <<"generic">>,
     !.discovery_payload = [EmptyPayload EXCEPT !.value_template = ValueTemplate]]

Cfg_thermostat ==
  [EmptyDevice EXCEPT
     !.type = "climate", !.object_id = <<"climate">>,
     !.discovery_payload =
        [EmptyPayload EXCEPT !.mode_state_topic = TrueStr,
           !.mode_command_topic = TrueStr,
           !.current_temperature_topic = TrueStr,
           !.temperature_state_topic = TrueStr,
           !.temperature_command_topic = TrueStr]]

\* A value that is truthy as a string: neither null, undefined nor empty.
Truthy(str) == str \notin {NullStr, UndefStr, <<>>}

\* utils.joinProps(a, b).
joinProps(a, b) == IF b # <<>> THEN a \o <<"_">> \o b ELSE a

\* String.prototype.toLocaleLowerCase on the words the model uses.
LowerToken(t) ==
  CASE t = "Air" -> "air"
    [] t = "Kitchen" -> "kitchen"
    [] t = "nodeID" -> "nodeid"
    [] OTHER -> t
toLocaleLowerCase(str) == [i \in 1..Len(str) |-> LowerToken(str[i])]

\* The result of a step of discovery that may throw or return early.
Thrown == [kind |-> "throw", cfg |-> EmptyDevice]
Returned == [kind |-> "return", cfg |-> EmptyDevice]
Built(cfg) == [kind |-> "cfg", cfg |-> cfg]

\* The keys of hassCfg (the exports of hass/configurations.js).
HassCfgKeys ==
  { "binary_sensor_motion", "binary_sensor_presence", "binary_sensor_contact",
    "binary_sensor_lock", "binary_sensor_water", "binary_sensor_smoke",
    "binary_sensor_gas", "binary_sensor_co", "binary_sensor_co2",
    "binary_sensor_tamper", "binary_sensor_alarm", "binary_sensor_router",
    "binary_sensor_battery_low", "sensor_generic", "central_scene",
    "light_rgb_switch", "light_rgb_dimmer", "light_dimmer", "volume_dimmer",
    "switch", "cover", "cover_position", "barrier_state", "lock", "thermostat",
    "fan", "sound_switch" }

\* getBinarySensorConfig(devClass, reversePayload): copy(hassCfg.binary_sensor)
\* is JSON.parse(JSON.stringify(undefined)) and throws when hassCfg has no
\* key binary_sensor; else the payloads are swapped on reversePayload.
getBinarySensorConfig(reversePayload) ==
  IF "binary_sensor" \notin HassCfgKeys THEN Thrown
  ELSE Built([EmptyDevice EXCEPT
                !.type = "binary_sensor",
                !.discovery_payload.payload_on =
                   IF reversePayload THEN FalseStr ELSE @,
                !.discovery_payload.payload_off =
                   IF reversePayload THEN TrueStr ELSE @])

\* cfg.object_id = id on the result of a step that may have thrown.
withObjectId(cls, id) ==
  IF cls.kind = "cfg" THEN Built([cls.cfg EXCEPT !.object_id = id]) ELSE cls

\* The case Binary Sensor of discoverValue: the configuration is chosen by
\* the sanitized, lowered property; only 'lock' has the payloads reversed.
binarySensor(sensorTypeName) ==
  withObjectId(getBinarySensorConfig(sensorTypeName = <<"lock">>), sensorTypeName)

\* The probing, had the second value probed been the multilevel switch of
\* endpoint 0.
rgbControlValueRoot(present, endpoint) ==
  IF HasValue(present, <<"3", "8", "-">> \o Digits(endpoint) \o <<"-", "currentValue">>)
  THEN <<"3", "8", "-">> \o Digits(endpoint) \o <<"-", "currentValue">>
  ELSE IF HasValue(present, <<"3", "8", "-", "0", "-", "currentValue">>)
  THEN <<"3", "8", "-", "0", "-", "currentValue">>
  ELSE IF HasValue(present, <<"3", "7", "-">> \o Digits(endpoint) \o <<"-", "currentValue">>)
  THEN <<"3", "7", "-">> \o Digits(endpoint) \o <<"-", "currentValue">>
  ELSE <<>>

\* The brightness or switch value addRgbColorSwitch pairs with a color value
\* of the endpoint: the multilevel switch of the endpoint, else (endpoint 0)
\* the one of endpoint 1, else the binary switch of the endpoint; <<>> if none.
rgbControlValue(present, endpoint) ==
  IF HasValue(present, <<"3", "8", "-">> \o Digits(endpoint) \o <<"-", "currentValue">>)
  THEN <<"3", "8", "-">> \o Digits(endpoint) \o <<"-", "currentValue">>
  ELSE IF endpoint = 0 /\ HasValue(present, <<"3", "8", "-", "1", "-", "currentValue">>)
  THEN <<"3", "8", "-", "1", "-", "currentValue">>
  ELSE IF HasValue(present, <<"3", "7", "-">> \o Digits(endpoint) \o <<"-", "currentValue">>)
  THEN <<"3", "7", "-">> \o Digits(endpoint) \o <<"-", "currentValue">>
  ELSE <<>>

\* The color descriptor with the topics of the color value filled in.
rgbColor(colorTopics) ==
  [Cfg_light_rgb_dimmer EXCEPT
     !.discovery_payload.rgb_state_topic = getTopic(colorTopics.topic, FALSE),
     !.discovery_payload.rgb_command_topic = getTopic(colorTopics.targetTopic, TRUE)]

\* The color descriptor with the control value vID added: vID and its target
\* are pushed to cfg.values and the state and command topics are set from it.
rgbControl(cfg, vID, topics) ==
  IF ~topics.ok THEN Thrown
  ELSE Built(
    [cfg EXCEPT
       !.values = <<vID, IF ValueMeta(vID).targetValue # <<>>
                         THEN ValueMeta(vID).targetValue ELSE UndefStr>>,
       !.discovery_payload.state_topic = getTopic(topics.topic, FALSE),
       !.discovery_payload.command_topic = getTopic(topics.targetTopic, TRUE),
       !.discovery_payload.brightness_state_topic =
          IF ValueMeta(vID).commandClass = CC_Multilevel_Switch
          THEN getTopic(topics.topic, FALSE) ELSE @,
       !.discovery_payload.brightness_command_topic =
          IF ValueMeta(vID).commandClass = CC_Multilevel_Switch
          THEN getTopic(topics.targetTopic, TRUE) ELSE @,
       !.discovery_payload.state_value_template =
          IF ValueMeta(vID).commandClass = CC_Multilevel_Switch
          THEN @ ELSE <<"{{", "value_template.json", "}}">>])

\* addRgbColorSwitch(node, currentColorValue).
addRgbColorSwitch(n, v, present, vID) ==
  IF vID = <<>> THEN Built(rgbColor(valueTopic(config, n, v, present)))
  ELSE rgbControl(rgbColor(valueTopic(config, n, v, present)), vID,
                  valueTopic(config, n, vID, present))

\* The object id of a sensor: sensor_objectId, or the device_class the values
\* table gives the value.
sensorObjectId(conf, m) ==
  IF conf # 0 /\ config.values[conf].device_class # <<>>
  THEN config.values[conf].device_class
  ELSE joinProps(m.sensor, m.objectId)

\* The switch on the command class in discoverValue: the configuration chosen
\* for the value, before the common fields are filled.
Classify(n, v, present, m, getT, setT) ==
  CASE m.commandClass \in {CC_Binary_Switch, CC_Binary_Toggle_Switch} ->
         IF m.isCurrentValue THEN Built(Cfg_switch) ELSE Returned
    [] m.commandClass \in {CC_Multilevel_Switch, CC_Multilevel_Toggle_Switch} ->
         IF ~m.isCurrentValue THEN Returned
         ELSE IF IsMotorControl(NodeInfo(n).generic, NodeInfo(n).specific)
         THEN Built([Cfg_cover_position EXCEPT
                       !.discovery_payload.state_topic = getT,
                       !.discovery_payload.command_topic = setT])
         ELSE Built([Cfg_light_dimmer EXCEPT
                       !.discovery_payload.brightness_state_topic = getT,
                       !.discovery_payload.brightness_command_topic = setT])
    [] m.commandClass = CC_Color_Switch ->
         IF m.property = <<"currentColor">> /\ m.propertyKey = <<>>
         THEN addRgbColorSwitch(n, v, present, rgbControlValue(present, m.endpoint))
         ELSE Returned
    [] m.commandClass = CC_Binary_Sensor ->
         binarySensor(IF m.property # <<>>
                      THEN sanitizeTopic(toLocaleLowerCase(m.property), TRUE)
                      ELSE m.property)
    [] m.commandClass = CC_Multilevel_Sensor ->
         IF ~m.ccSpecific THEN Returned
         ELSE Built([Cfg_sensor_generic EXCEPT
                       !.object_id = sensorObjectId(FindValueConf(config, n, v), m)])
    [] OTHER -> Returned

\* getDiscoveryTopic(hassDevice, nodeName).
getDiscoveryTopic(type, object_id, nodeName) ==
  <<type, "/">> \o nodeName \o <<"/">> \o object_id \o <<"/", "config">>

\* The key of a descriptor in node.hassDevices: type + '_' + object_id.
HassKey(type, object_id) == <<type, "_">> \o object_id

\* The state, command and attributes topics discoverValue fills in after the
\* switch: a missing or true state_topic becomes the value's topic and a false
\* one is deleted, a true command_topic becomes the target's set topic, or
\* the value's topic + '/set'.
fillStateTopic(p, getT) ==
  IF p.state_topic \in {Absent, TrueStr} THEN [p EXCEPT !.state_topic = getT]
  ELSE IF p.state_topic = FalseStr THEN [p EXCEPT !.state_topic = Absent]
  ELSE p

fillCommandTopic(p, getT, setT) ==
  IF p.command_topic = TrueStr
  THEN [p EXCEPT !.command_topic =
          IF Truthy(setT) THEN setT ELSE getT \o <<"/", "set">>]
  ELSE p

fillAttributesTopic(p, type) ==
  IF type \in {"binary_sensor", "sensor", "lock", "climate", "fan"}
  THEN [p EXCEPT !.json_attributes_topic = p.state_topic]
  ELSE p

\* The object id, had the endpoint not been appended to it.
endpointIdNone(object_id, endpoint) == object_id

\* The object id discoverValue gives a descriptor: the endpoint is appended
\* when it is not 0, the id is sanitized and lowered, and the endpoint is
\* appended (again) when the node already has a descriptor of that key.
endpointId(object_id, endpoint) ==
  IF endpoint # 0 THEN object_id \o <<"_">> \o Digits(endpoint) ELSE object_id

uniqueId(devices, type, id, endpoint) ==
  IF MapHas(devices, HassKey(type, id)) THEN id \o <<"_">> \o Digits(endpoint)
  ELSE id

\* Whether a sequence holds an element.
Includes(seq, e) == \E i \in 1..Len(seq) : seq[i] = e

\* cfg.values after discoverValue has pushed the value and its target.
pushValues(values, v, targetValue) ==
  (IF Includes(values, v) THEN values ELSE Append(values, v))
  \o (IF targetValue # <<>> THEN <<targetValue>> ELSE <<>>)

\* The end of discoverValue: the descriptor is stored in node.hassDevices
\* under type_object_id and handed to publishDiscovery.
registerDevice(g, n, key, oid, dev) ==
  publishDiscovery([g EXCEPT !.heap = FunPut(@, oid, dev),
                             !.hass[n] = MapPut(@, key, oid)],
                   n, oid, FALSE, FALSE)

\* discoverValue from the object id on.
finishValue(g, n, v, cfg, p, id) ==
  registerDevice(g, n, HassKey(cfg.type, id), NewOid(g, n, HassKey(cfg.type, id)),
    [cfg EXCEPT
       !.object_id = id, !.discovery_payload = p,
       !.discoveryTopic = getDiscoveryTopic(cfg.type, id, getNodeName(n, ignoreLoc)),
       !.values = pushValues(cfg.values, v, ValueMeta(v).targetValue),
       !.persistent = FALSE, !.ignoreDiscovery = FALSE])

\* discoverValue from the result of the switch on.
buildValue(g, n, v, cls, getT, setT) ==
  IF cls.kind # "cfg" THEN g
  ELSE finishValue(g, n, v, cls.cfg,
         fillAttributesTopic(
           fillCommandTopic(fillStateTopic(cls.cfg.discovery_payload, getT), getT, setT),
           cls.cfg.type),
         uniqueId(g.hass[n], cls.cfg.type,
           toLocaleLowerCase(
             sanitizeTopic(endpointId(cls.cfg.object_id, ValueMeta(v).endpoint), TRUE)),
           ValueMeta(v).endpoint))

\* discoverValue from the result of valueTopic on.
classifyValue(g, n, v, getT, setT) ==
  buildValue(g, n, v, Classify(n, v, nodes[n].values, ValueMeta(v), getT, setT),
             getT, setT)

topicValue(g, n, v, result) ==
  IF ~result.ok \/ result.topic = <<>> THEN g
  ELSE classifyValue(g, n, v, getTopic(result.topic, FALSE),
         IF Truthy(result.targetTopic) THEN getTopic(result.targetTopic, TRUE)
         ELSE NullStr)

\* discoverValue, had it not looked the value id up in the Discovered Map.
discoverValueOwned(g, n, v) ==
  IF ~HasValue(nodes[n].values, v) \/ ~nodes[n].ready THEN g
  ELSE topicValue(g, n, v, valueTopic(config, n, v, nodes[n].values))

\* Gateway.prototype.discoverValue(node, vId).
discoverValue(g, n, v) ==
  IF \/ ~HasValue(nodes[n].values, v)
     \/ ValueIdOf(n, v) \in DOMAIN g.discovered
     \/ ~nodes[n].ready
  THEN g
  ELSE topicValue(g, n, v, valueTopic(config, n, v, nodes[n].values))

(***************************************************************************)
(* Climate templates: discoverClimates and discoverDevice.                 *)
(***************************************************************************)

\* The mode names Home Assistant accepts and the mode names by device ordinal
\* ("" stands for undefined), as discoverClimates lists them.
allowedModes == <<"off", "heat", "cool", "auto", "dry", "fan_only">>
hassModes ==
  <<"off", "heat", "cool", "auto", "", "", "fan_only", "", "dry", "", "auto",
    "heat", "cool", "off", "heat", "">>

\* The while loop of discoverClimates that replaces a mode name already in
\* use by the first allowed one that is free; i is the zero-based index.
RECURSIVE PickMode(_, _, _)
PickMode(hM, modes, i) ==
  IF Includes(modes, hM) /\ i < Len(allowedModes)
  THEN PickMode(allowedModes[i + 1], modes, i + 1)
  ELSE hM

\* obj[k] = val on a list of [key, value] pairs with string keys: a present
\* key keeps its place, a new key goes last.
PairPut(m, k, val) ==
  IF PairHas(m, k)
  THEN [i \in 1..Len(m) |-> IF m[i].key = k THEN [key |-> k, value |-> val] ELSE m[i]]
  ELSE Append(m, [key |-> k, value |-> val])

\* obj[k] = val on a list of pairs with integer keys, which JavaScript
\* enumerates in ascending order.
RECURSIVE IntPairPut(_, _, _)
IntPairPut(m, k, val) ==
  IF m = <<>> THEN <<[key |-> k, value |-> val]>>
  ELSE IF Head(m).key = k THEN <<[key |-> k, value |-> val]>> \o Tail(m)
  ELSE IF Head(m).key > k THEN <<[key |-> k, value |-> val]>> \o m
  ELSE <<Head(m)>> \o IntPairPut(Tail(m), k, val)

\* str.endsWith(suffix).
EndsWith(str, suffix) ==
  /\ Len(suffix) <= Len(str)
  /\ SubSeq(str, Len(str) - Len(suffix) + 1, Len(str)) = suffix

\* The value ids of a node, in order, of a command class and property.
RECURSIVE FilterValues(_, _, _)
FilterValues(present, cc, property) ==
  IF present = <<>> THEN <<>>
  ELSE (IF /\ ValueMeta(Head(present)).commandClass = cc
           /\ ValueMeta(Head(present)).property = property
        THEN <<Head(present)>> ELSE <<>>)
       \o FilterValues(Tail(present), cc, property)

\* setpoints.find(v => v.endsWith(suffix)): <<>> if there is none.
RECURSIVE FindEndsWith(_, _)
FindEndsWith(seq, suffix) ==
  IF seq = <<>> THEN <<>>
  ELSE IF EndsWith(Head(seq), suffix) THEN Head(seq)
  ELSE FindEndsWith(Tail(seq), suffix)

\* availableModes[m], as a string; undefined past the end.
OrdinalAt(availableModes, m) ==
  IF m + 1 \in 1..Len(availableModes) THEN Digits(availableModes[m + 1])
  ELSE UndefStr

\* One round of the loop of discoverClimates over the available modes: mode
\* m is entered in the mode map under the name hM and, unless it is off, the
\* setpoint whose id ends in -m becomes the setpoint of the mode.
addMode(c, m, hM, ordinal, setId) ==
  [c EXCEPT !.mode_map = PairPut(@, hM, ordinal),
            !.modes = Append(@, hM),
            !.values = IF m > 0 /\ setId # <<>> THEN Append(@, setId) ELSE @,
            !.setpoint_topic =
               IF m > 0 /\ setId # <<>> THEN IntPairPut(@, m, setId) ELSE @]

RECURSIVE ClimateModes(_, _, _, _)
ClimateModes(c, availableModes, setpoints, k) ==
  IF k > Len(availableModes) THEN c
  ELSE ClimateModes(
         IF availableModes[k] + 1 \in 1..Len(hassModes)
            /\ hassModes[availableModes[k] + 1] # ""
         THEN addMode(c, availableModes[k],
                      PickMode(hassModes[availableModes[k] + 1], c.modes, 1),
                      OrdinalAt(availableModes, availableModes[k]),
                      FindEndsWith(setpoints, <<"-">> \o Digits(availableModes[k])))
         ELSE c,
         availableModes, setpoints, k + 1)

\* config.setpoint_topic[1] || config.setpoint_topic[first key].
defaultSetpoint(c) ==
  [c EXCEPT !.default_setpoint =
     IF PairHas(c.setpoint_topic, 1) THEN PairGet(c.setpoint_topic, 1, UndefStr)
     ELSE IF c.setpoint_topic # <<>> THEN c.setpoint_topic[1].value
     ELSE UndefStr]

\* The thermostat template with the temperature placeholder.
climateTemperature(temperatures) ==
  IF temperatures # <<>>
  THEN [Cfg_thermostat EXCEPT
          !.discovery_payload.current_temperature_topic = temperatures[1],
          !.values = <<temperatures[1]>>]
  ELSE [Cfg_thermostat EXCEPT !.discovery_payload.current_temperature_topic = Absent]

\* The template with the mode placeholders, the mode map and the setpoints.
climateModes(c, modes, setpoints) ==
  IF modes # <<>>
  THEN defaultSetpoint(
         ClimateModes([c EXCEPT
                         !.values = Append(@, modes[1]),
                         !.discovery_payload.mode_state_topic = modes[1],
                         !.discovery_payload.mode_command_topic =
                            modes[1] \o <<"/", "set">>],
                      ValueMeta(modes[1]).states, setpoints, 1))
  ELSE [c EXCEPT !.default_setpoint = setpoints[1]]

\* The template discoverClimates synthesizes from the values of a node.
climateTemplate(present, setpoints) ==
  climateModes(
    climateTemperature(
      FilterValues(present, CC_Multilevel_Sensor, <<"Air", " ", "temperature">>)),
    FilterValues(present, CC_Thermostat_Mode, <<"mode">>),
    setpoints)

\* nodeDevices.push(config) unless there is no setpoint value.
pushClimate(g, n, setpoints) ==
  IF setpoints = <<>> THEN g
  ELSE [g EXCEPT !.allDevices[NodeInfo(n).deviceId] =
          Append(@, climateTemplate(nodes[n].values, setpoints))]

\* discoverClimates, had it not looked for a climate template of the device
\* id in the registry.
discoverClimatesAlways(g, n) ==
  IF NodeInfo(n).generic # 8 THEN g
  ELSE pushClimate(g, n,
         FilterValues(nodes[n].values, CC_Thermostat_Setpoint, <<"setpoint">>))

\* Gateway.prototype.discoverClimates(node): synthesizes the climate template
\* of the node's device id into the allDevices registry.
discoverClimates(g, n) ==
  IF NodeInfo(n).generic # 8 THEN g
  ELSE IF \E i \in 1..Len(g.allDevices[NodeInfo(n).deviceId]) :
            g.allDevices[NodeInfo(n).deviceId][i].type = "climate"
  THEN g
  ELSE pushClimate(g, n,
         FilterValues(nodes[n].values, CC_Thermostat_Setpoint, <<"setpoint">>))

\* this.mqtt.getTopic(this.valueTopic(node, valueId)).
ValueGetTopic(n, v) == getTopic(valueTopicString(config, n, v), FALSE)

\* The mode topics of a climate descriptor, when the node has the mode value
\* the template names.
climateModeTopics(p, modeTopic) ==
  [p EXCEPT !.mode_state_topic = modeTopic,
            !.mode_command_topic = modeTopic \o <<"/", "set">>]

\* The setpoint topics of a climate descriptor.
climateSetpointTopics(p, setTopic) ==
  [p EXCEPT !.temperature_state_topic = setTopic,
            !.temperature_command_topic = setTopic \o <<"/", "set">>]

\* The payload of a climate descriptor: the placeholders of the template
\* become the topics of the node's values.
climatePayload(n, present, p, setId) ==
  [climateSetpointTopics(
     IF HasValue(present, p.mode_state_topic)
     THEN climateModeTopics(p, ValueGetTopic(n, p.mode_state_topic)) ELSE p,
     ValueGetTopic(n, setId))
   EXCEPT !.current_temperature_topic =
     IF HasValue(present, @) THEN ValueGetTopic(n, @) ELSE @]

\* The setpoint discoverDevice binds a climate descriptor to: the one of the
\* device's current mode, else the default one.
climateSetpoint(node, template, modeId) ==
  IF /\ HasValue(node.values, modeId)
     /\ PairHas(template.setpoint_topic, node.value[modeId])
  THEN PairGet(template.setpoint_topic, node.value[modeId], UndefStr)
  ELSE template.default_setpoint

\* discoverDevice from the setpoint on; reading the topic of a setpoint the
\* node does not have throws, and the error is caught.
buildClimate(g, n, template, hassID, setId, id) ==
  IF ~HasValue(nodes[n].values, setId) THEN g
  ELSE registerDevice(g, n, hassID, NewOid(g, n, hassID),
         [template EXCEPT
            !.object_id = id,
            !.discovery_payload = climatePayload(n, nodes[n].values, @, setId),
            !.discoveryTopic =
               getDiscoveryTopic(template.type, id, getNodeName(n, ignoreLoc)),
            !.persistent = FALSE])

\* Gateway.prototype.discoverDevice(node, hassDevice) for a climate template.
discoverDevice(g, n, template) ==
  IF MapHas(g.hass[n], HassKey(template.type, template.object_id)) THEN g
  ELSE buildClimate(g, n, template, HassKey(template.type, template.object_id),
         climateSetpoint(nodes[n], template, template.discovery_payload.mode_state_topic),
         toLocaleLowerCase(sanitizeTopic(template.object_id, TRUE)))

(***************************************************************************)
(* The payload transform pipeline: the values of the device, their         *)
(* encoding into a payload and the decoding of an inbound payload.         *)
(***************************************************************************)

\* JavaScript values are a type tag with the numbers, the text and the
\* properties that represent the value.  A number is a fraction <<p, q>> in
\* lowest terms with q > 0; <<0, 0>> is NaN and <<1, 0>>, <<-1, 0>> are the
\* infinities.  A boolean is <<1>> or <<0>>, a buffer its bytes (or the text
\* it was made from), an object a list of [key, value] pairs.
Js(t, num, str, kids) == [t |-> t, num |-> num, str |-> str, kids |-> kids]
JsNum(p, q) == Js("number", <<p, q>>, <<>>, <<>>)
JsInt(k) == Js("number", <<k, 1>>, <<>>, <<>>)
JsNaN == Js("number", <<0, 0>>, <<>>, <<>>)
JsBool(b) == Js("boolean", <<IF b THEN 1 ELSE 0>>, <<>>, <<>>)
JsStr(s) == Js("string", <<>>, s, <<>>)
JsNull == Js("null", <<>>, <<>>, <<>>)
JsUndefined == Js("undefined", <<>>, <<>>, <<>>)
JsBuffer(bytes) == Js("buffer", bytes, <<>>, <<>>)
JsObject(pairs) == Js("object", <<>>, <<>>, pairs)

\* The arithmetic of eval on numbers.
Abs(k) == IF k < 0 THEN -k ELSE k
Sign(k) == IF k < 0 THEN -1 ELSE IF k > 0 THEN 1 ELSE 0

RECURSIVE Gcd(_, _)
Gcd(a, b) == IF b = 0 THEN a ELSE Gcd(b, a % b)

\* The fraction p/q in lowest terms; a zero denominator gives an infinity or,
\* for 0/0, NaN.
Fraction(p, q) ==
  IF q = 0 THEN <<Sign(p), 0>>
  ELSE <<(Sign(q) * p) \div Gcd(Abs(p), Abs(q)), Abs(q) \div Gcd(Abs(p), Abs(q))>>

NumAdd(a, b) ==
  IF a[2] = 0 \/ b[2] = 0
  THEN (IF a = <<0, 0>> \/ b = <<0, 0>> THEN <<0, 0>>
        ELSE IF a[2] = 0 /\ b[2] = 0 THEN (IF a = b THEN a ELSE <<0, 0>>)
        ELSE IF a[2] = 0 THEN a ELSE b)
  ELSE Fraction(a[1] * b[2] + b[1] * a[2], a[2] * b[2])
NumNeg(a) == <<-a[1], a[2]>>
NumMul(a, b) ==
  IF a = <<0, 0>> \/ b = <<0, 0>> THEN <<0, 0>>
  ELSE IF a[2] = 0 \/ b[2] = 0 THEN <<Sign(a[1]) * Sign(b[1]), 0>>
  ELSE Fraction(a[1] * b[1], a[2] * b[2])
NumDiv(a, b) ==
  IF a = <<0, 0>> \/ b = <<0, 0>> THEN <<0, 0>>
  ELSE IF b[2] = 0 THEN (IF a[2] = 0 THEN <<0, 0>> ELSE <<0, 1>>)
  ELSE IF a[2] = 0 THEN <<a[1] * (IF b[1] < 0 THEN -1 ELSE 1), 0>>
  ELSE Fraction(a[1] * b[2], a[2] * b[1])

\* The number a digit token stands for.
DigitValue(d) == CHOOSE k \in 0..9 : Digits(k) = <<d>>

\* The characters isValidOperation accepts.
OperationTokens == DigitTokens \cup {".", "(", ")", "-", "+", "*", "/", ","}

\* isValidOperation(op): op && !/[^0-9.()\-+*/,]/g.test(op).
isValidOperation(op) ==
  op # <<>> /\ \A i \in 1..Len(op) : op[i] \in OperationTokens

\* eval(x + op) for an operation that is a chain of an operator and a one
\* digit operand each: `sum` is the sum of the terms that are complete and
\* `term` the product under way, so that * and / bind tighter than + and -.
RECURSIVE evalChain(_, _, _, _)
evalChain(op, i, sum, term) ==
  IF i > Len(op) THEN NumAdd(sum, term)
  ELSE CASE op[i] = "*" ->
              evalChain(op, i + 2, sum, NumMul(term, <<DigitValue(op[i + 1]), 1>>))
         [] op[i] = "/" ->
              evalChain(op, i + 2, sum, NumDiv(term, <<DigitValue(op[i + 1]), 1>>))
         [] op[i] = "+" ->
              evalChain(op, i + 2, NumAdd(sum, term), <<DigitValue(op[i + 1]), 1>>)
         [] OTHER ->
              evalChain(op, i + 2, NumAdd(sum, term), <<-DigitValue(op[i + 1]), 1>>)

\* Whether a string is a decimal numeral, and the number it stands for.
IsNumeral(str) == str # <<>> /\ \A i \in 1..Len(str) : str[i] \in DigitTokens
RECURSIVE NumeralValue(_)
NumeralValue(str) ==
  IF str = <<>> THEN 0
  ELSE 10 * NumeralValue(SubSeq(str, 1, Len(str) - 1)) + DigitValue(str[Len(str)])

\* The number the text of a value stands for inside eval(x + op).
ToNumber(x) ==
  CASE x.t = "number" -> x.num
    [] x.t = "boolean" -> <<x.num[1], 1>>
    [] x.t = "null" -> <<0, 1>>
    [] x.t = "string" -> <<NumeralValue(x.str), 1>>
    [] OTHER -> <<0, 0>>

\* eval(x + op) throws when the text of x is neither a number nor a name eval
\* knows (true, false, null, undefined, NaN).
evalThrows(x) ==
  x.t \in {"object", "buffer"} \/ (x.t = "string" /\ ~IsNumeral(x.str))
evalOperation(x, op) ==
  Js("number", evalChain(op, 1, <<0, 1>>, ToNumber(x)), <<>>, <<>>)

\* str.replace of the first occurrence of a character, and of all of them.
ReplaceFirstToken(op, a, b) ==
  [i \in 1..Len(op) |->
     IF op[i] = a /\ \A j \in 1..(i - 1) : op[j] # a THEN b ELSE op[i]]
ReplaceAllTokens(op, a, b) == [i \in 1..Len(op) |-> IF op[i] = a THEN b ELSE op[i]]

\* The operation parsePayload evaluates to revert a post-operation.
revertOperation(op) ==
  IF Includes(op, "/") THEN ReplaceFirstToken(op, "/", "*")
  ELSE IF Includes(op, "*") THEN ReplaceAllTokens(op, "*", "/")
  ELSE IF Includes(op, "+") THEN ReplaceFirstToken(op, "+", "-")
  ELSE IF Includes(op, "-") THEN ReplaceFirstToken(op, "-", "+")
  ELSE op

\* The value an ordinal of a value's range stands for: a number is its own
\* ordinal, a boolean is false for 0, and the other types list their values.
TextValues ==
  << <<"hello">>, <<"on">>, <<"Always", " ", "on">>, <<"unlock">>, <<"1", "2">> >>
AnyValues == << JsBuffer(<<1, 2>>), JsStr(<<"hello">>), JsNull >>
DurationValues ==
  << JsObject(<< [key |-> "value", value |-> JsInt(5)],
                 [key |-> "unit", value |-> JsStr(<<"seconds">>)] >>),
     JsObject(<< [key |-> "unit", value |-> JsStr(<<"default">>)] >>) >>

JsValue(v, val) ==
  CASE ValueMeta(v).type = "number" -> JsInt(val)
    [] ValueMeta(v).type = "boolean" -> JsBool(val # 0)
    [] ValueMeta(v).type = "string" -> JsStr(TextValues[val + 1])
    [] ValueMeta(v).type = "any" -> AnyValues[val + 1]
    [] OTHER -> DurationValues[val + 1]

\* The gateway option includeNodeInfo, kept fixed.
includeNodeInfo == FALSE

\* The part of onValueChanged that applies the post-operation of the value's
\* override (conf is its index in config.values, 0 for none).
postOperate(cfg, conf, x) ==
  IF conf # 0 /\ isValidOperation(cfg.values[conf].postOperation)
  THEN evalOperation(x, cfg.values[conf].postOperation)
  ELSE x

\* The part of onValueChanged that wraps the value: payloadType 1 is a copy of
\* the value id object with the value, 2 the value itself, any other the
\* value with the time.
envelope(cfg, n, v, x) ==
  CASE cfg.payloadType = 1 ->
         JsObject(<< [key |-> "id", value |-> JsStr(ValueIdOf(n, v))],
                     [key |-> "value", value |-> x] >>
                  \o (IF includeNodeInfo
                      THEN << [key |-> "nodeName", value |-> JsStr(NodeInfo(n).name)],
                              [key |-> "nodeLocation", value |-> JsStr(nodes[n].loc)] >>
                      ELSE <<>>))
    [] cfg.payloadType = 2 ->
         IF includeNodeInfo /\ x.t \in {"object", "buffer"}
         THEN [x EXCEPT !.kids = @ \o << [key |-> "nodeName", value |-> JsStr(NodeInfo(n).name)],
                                     [key |-> "nodeLocation", value |-> JsStr(nodes[n].loc)] >>]
         ELSE x
    [] OTHER ->
         JsObject(<< [key |-> "time", value |-> JsStr(<<"now">>)],
                     [key |-> "value", value |-> x] >>
                  \o (IF includeNodeInfo
                      THEN << [key |-> "nodeName", value |-> JsStr(NodeInfo(n).name)],
                              [key |-> "nodeLocation", value |-> JsStr(nodes[n].loc)] >>
                      ELSE <<>>))

\* The payload onValueChanged publishes for value val of a value.
encodeValue(cfg, conf, n, v, val) ==
  envelope(cfg, n, v, postOperate(cfg, conf, JsValue(v, val)))

\* obj.hasOwnProperty(k) and obj[k] on an object.
HasKey(x, k) == \E i \in 1..Len(x.kids) : x.kids[i].key = k
GetKey(x, k) == x.kids[CHOOSE i \in 1..Len(x.kids) : x.kids[i].key = k].value

\* The global isNaN(x).
isNaN(x) ==
  CASE x.t = "number" -> x.num = <<0, 0>>
    [] x.t = "string" -> ~(x.str = <<>> \/ IsNumeral(x.str))
    [] x.t \in {"boolean", "null"} -> FALSE
    [] OTHER -> TRUE

\* /\bw\b/i.test(str) for one of the words: a token spells the word and its
\* neighbours are no word characters.
WordTokens == {" ", "/", "-", "#", "+", "."}
LowerWord(t) ==
  CASE t \in {"ON", "On"} -> "on"
    [] t \in {"OFF", "Off"} -> "off"
    [] OTHER -> t
HasWord(str, words) ==
  \E i \in 1..Len(str) :
    /\ LowerWord(str[i]) \in words
    /\ i > 1 => str[i - 1] \in WordTokens
    /\ i < Len(str) => str[i + 1] \in WordTokens

\* parsePayload: the text of a payload for an owned value becomes a boolean.
parseText(x) ==
  IF x.t = "string" /\ isNaN(x)
  THEN (IF HasWord(x.str, {"true", "on", "lock"}) THEN JsBool(TRUE)
        ELSE IF HasWord(x.str, {"false", "off", "unlock"}) THEN JsBool(FALSE)
        ELSE x)
  ELSE x

\* parsePayload: on and off become the maximum and the minimum of a number.
parseRange(x, m) ==
  IF x.t = "boolean" /\ m.type = "number"
  THEN JsInt(IF x.num = <<1>> THEN m.max ELSE m.min)
  ELSE x

\* map[x] on a mode map: the device ordinal of a mode name, or undefined.
ModeOf(map, x) ==
  IF x.t = "string" /\ Len(x.str) = 1 /\ PairHas(map, x.str[1])
     /\ IsNumeral(PairGet(map, x.str[1], UndefStr))
  THEN JsInt(NumeralValue(PairGet(map, x.str[1], UndefStr)))
  ELSE JsUndefined

\* parsePayload: the name of a mode becomes the device ordinal the owner maps
\* it to.  (The descriptors of the model have no fan_mode_map, so that the
\* branch of the Thermostat Fan Mode class is never taken.)
parseMode(x, m, d) ==
  IF m.list /\ isNaN(x) /\ m.commandClass = CC_Thermostat_Mode /\ d.mode_map # <<>>
  THEN ModeOf(d.mode_map, x)
  ELSE x

\* parsePayload: a toggle is written 1, or the opposite end of the current
\* value (`current` is valueId.value as a number).
parseToggle(x, m, current) ==
  IF m.commandClass = CC_Binary_Toggle_Switch THEN JsInt(1)
  ELSE IF m.commandClass = CC_Multilevel_Toggle_Switch
  THEN JsInt(IF current > 0 THEN 0 ELSE 255)
  ELSE x

\* The result of parsePayload: the payload, and whether an error was caught.
Parsed(x) == [thrown |-> FALSE, payload |-> x]
Caught(x) == [thrown |-> TRUE, payload |-> x]

\* parsePayload from the post-operation on.
parseOperation(x, cfg, conf) ==
  IF conf # 0 /\ isValidOperation(cfg.values[conf].postOperation)
  THEN (IF evalThrows(x) THEN Caught(x)
        ELSE Parsed(evalOperation(x, revertOperation(cfg.values[conf].postOperation))))
  ELSE Parsed(x)

\* parsePayload from the buffer of a value of type any on: reading a property
\* of null or undefined throws, and so does Buffer.from on a number, a
\* boolean or a plain object.
parseBuffer(x, m, cfg, conf) ==
  IF m.type # "any" THEN parseOperation(x, cfg, conf)
  ELSE IF x.t \in {"null", "undefined"} THEN Caught(x)
  ELSE IF x.t = "object" /\ HasKey(x, "type") /\ GetKey(x, "type") = JsStr(<<"Buffer">>)
          /\ HasKey(x, "data")
  THEN parseOperation(GetKey(x, "data"), cfg, conf)
  ELSE IF x.t \in {"number", "boolean", "object"} THEN Caught(x)
  ELSE parseOperation(
         IF x.t = "string" THEN Js("buffer", <<>>, x.str, <<>>) ELSE x, cfg, conf)

\* parsePayload from the payload without its envelope on; owner is the
\* descriptor that owns the value, or EmptyDevice when owned is FALSE.
parseOwned(x, m, current, owned, owner, cfg, conf) ==
  parseBuffer(
    IF owned
    THEN parseToggle(parseMode(parseRange(parseText(x), m), m, owner), m, current)
    ELSE x,
    m, cfg, conf)

\* parsePayload, had it not taken the value out of its envelope.
parsePayloadKeepEnvelope(g, x, n, v, cfg, conf) ==
  IF x.t = "null" THEN Caught(x)
  ELSE parseOwned(x, ValueMeta(v), nodes[n].value[v],
         ValueIdOf(n, v) \in DOMAIN g.discovered,
         IF ValueIdOf(n, v) \in DOMAIN g.discovered
         THEN g.heap[g.discovered[ValueIdOf(n, v)]] ELSE EmptyDevice,
         cfg, conf)

\* Gateway.prototype.parsePayload(payload, valueId, valueConf): null has no
\* hasOwnProperty, so that reading it throws.
parsePayload(g, x, n, v, cfg, conf) ==
  IF x.t = "null" THEN Caught(x)
  ELSE parseOwned(
         IF x.t = "object" /\ HasKey(x, "value") THEN GetKey(x, "value") ELSE x,
         ValueMeta(v), nodes[n].value[v],
         ValueIdOf(n, v) \in DOMAIN g.discovered,
         IF ValueIdOf(n, v) \in DOMAIN g.discovered
         THEN g.heap[g.discovered[ValueIdOf(n, v)]] ELSE EmptyDevice,
         cfg, conf)

(***************************************************************************)
(* The event handlers.                                                     *)
(***************************************************************************)

\* The order of discovery, had the values been taken as the node lists them.
getValuesInOrder(values) == values

\* getPriorityCCFirst(node.values): Color Switch values are moved to the
\* front (each in front of the ones before it), the others keep their order.
RECURSIVE getPriorityCCFirst(_)
getPriorityCCFirst(values) ==
  IF values = <<>> THEN <<>>
  ELSE IF ValueMeta(values[Len(values)]).commandClass = CC_Color_Switch
  THEN <<values[Len(values)]>> \o getPriorityCCFirst(SubSeq(values, 1, Len(values) - 1))
  ELSE Append(getPriorityCCFirst(SubSeq(values, 1, Len(values) - 1)),
              values[Len(values)])

\* The purge, had the prefix been the node id without the '-'.
onNodeRemovedById(g, n) ==
  [g EXCEPT !.discovered =
     [id \in {i \in DOMAIN @ : ~StartsWith(i, Digits(n))} |-> @[id]]]

\* onNodeRemoved(node): the purge of the Discovered Map by id prefix.
onNodeRemoved(g, n) ==
  [g EXCEPT !.discovered =
     [id \in {i \in DOMAIN @ : ~StartsWith(i, Digits(n) \o <<"-">>)} |-> @[id]]]

\* nodeDevices.forEach(device => this.discoverDevice(node, device)).
RECURSIVE discoverDevices(_, _, _)
discoverDevices(g, n, k) ==
  IF k > Len(g.allDevices[NodeInfo(n).deviceId]) THEN g
  ELSE discoverDevices(
         discoverDevice(g, n, g.allDevices[NodeInfo(n).deviceId][k]), n, k + 1)

\* The loop, had the error of one value been caught around the loop instead
\* of inside discoverValue: the first value that throws ends the loop.
RECURSIVE discoverValuesAbort(_, _, _, _)
discoverValuesAbort(g, n, ids, k) ==
  IF k > Len(ids) THEN g
  ELSE IF /\ HasValue(nodes[n].values, ids[k]) /\ nodes[n].ready
          /\ ValueIdOf(n, ids[k]) \notin DOMAIN g.discovered
          /\ valueTopic(config, n, ids[k], nodes[n].values).ok
          /\ Classify(n, ids[k], nodes[n].values, ValueMeta(ids[k]), <<>>, <<>>).kind
               = "throw"
  THEN g
  ELSE discoverValuesAbort(discoverValue(g, n, ids[k]), n, ids, k + 1)

\* for (const id of ids) this.discoverValue(node, id).
RECURSIVE discoverValues(_, _, _, _)
discoverValues(g, n, ids, k) ==
  IF k > Len(ids) THEN g
  ELSE discoverValues(discoverValue(g, n, ids[k]), n, ids, k + 1)

\* The first loop of onNodeStatus: persistent descriptors are published again.
RECURSIVE publishPersistent(_, _, _)
publishPersistent(g, n, k) ==
  IF k > Len(g.hass[n]) THEN g
  ELSE publishPersistent(
         IF g.heap[g.hass[n][k].oid].persistent
         THEN publishDiscovery(g, n, g.hass[n][k].oid, FALSE, FALSE) ELSE g,
         n, k + 1)

\* The discovery pass of onNodeStatus.
discoverNode(g, n) ==
  discoverValues(
    discoverDevices(discoverClimates(publishPersistent(g, n, 1), n), n, 1),
    n, getPriorityCCFirst(nodes[n].values), 1)

\* this.mqtt.publish(nodeTopic + '/status', data).
publishStatus(g, n) ==
  IF ignoreStatus THEN g
  ELSE Emit(g, Msg("status", nodeTopic(config, n) \o <<"/", "status">>,
                   NoOid, FALSE, <<>>))

\* onNodeStatus(node).
onNodeStatus(g, n) ==
  publishStatus(
    IF nodes[n].ready /\ config.hassDiscovery THEN discoverNode(g, n) ELSE g, n)

\* The re-pointing, had the topic not been compared with the one in the
\* payload.
rewireClimateAlways(g, n, oid, setTopic) ==
  publishDiscovery(
    [g EXCEPT !.heap[oid].discovery_payload = climateSetpointTopics(@, setTopic)],
    n, oid, FALSE, FALSE)

\* The climate descriptor pointed at the setpoint of a new mode.
rewireClimate(g, n, oid, setTopic) ==
  IF setTopic = g.heap[oid].discovery_payload.temperature_state_topic THEN g
  ELSE publishDiscovery(
         [g EXCEPT !.heap[oid].discovery_payload =
            climateSetpointTopics(@, setTopic)],
         n, oid, FALSE, FALSE)

\* hassDevice.mode_map ? hassDevice.mode_map.off === valueId.value : false.
isOff(d, val) ==
  PairHas(d.mode_map, "off") /\ PairGet(d.mode_map, "off", UndefStr) = Digits(val)

\* The part of onValueChanged that points a climate descriptor at the setpoint
\* of the mode the device has changed to.
updateClimate(g, n, v, val, changed) ==
  IF /\ changed /\ ValueMeta(v).list /\ ValueIdOf(n, v) \in DOMAIN g.discovered
     /\ ~isOff(g.heap[g.discovered[ValueIdOf(n, v)]], val)
     /\ PairHas(g.heap[g.discovered[ValueIdOf(n, v)]].setpoint_topic, val)
     /\ HasValue(nodes[n].values,
                 PairGet(g.heap[g.discovered[ValueIdOf(n, v)]].setpoint_topic, val, <<>>))
  THEN rewireClimate(g, n, g.discovered[ValueIdOf(n, v)],
         ValueGetTopic(n,
           PairGet(g.heap[g.discovered[ValueIdOf(n, v)]].setpoint_topic, val, <<>>)))
  ELSE g

\* The subscription, had the depth not been looked up in topicLevels.
subscribeLevelsAlways(g, levels) ==
  Emit([g EXCEPT !.topicLevels = Append(@, levels),
                 !.subs = Append(@, WildcardPattern(levels))],
       Msg("subscribe", WildcardPattern(levels), NoOid, FALSE, <<>>))

\* this.topicLevels.push(levels) and the subscription of the wildcard pattern
\* of that depth, when the depth is new.
subscribeLevels(g, levels) ==
  IF Includes(g.topicLevels, levels) THEN g
  ELSE Emit([g EXCEPT !.topicLevels = Append(@, levels),
                      !.subs = Append(@, WildcardPattern(levels))],
            Msg("subscribe", WildcardPattern(levels), NoOid, FALSE, <<>>))

\* The part of onValueChanged that registers a writeable value in the
\* Topic-Value Map.
registerTopic(g, n, v, result) ==
  IF ValueMeta(v).writeable /\ result.topic \notin DOMAIN g.topicValues
  THEN [subscribeLevels(g, TopicLevelCount(result.topic))
          EXCEPT !.topicValues =
            FunPut(@, result.topic, [n |-> n, v |-> v, conf |-> result.conf])]
  ELSE g

\* The retain option of mqttOptions in onValueChanged: false for a stateless
\* value, and the retain of the value's override when that is defined.
mqttOptions(cfg, conf, stateless) ==
  IF conf # 0 /\ cfg.values[conf].retain # "undefined" THEN cfg.values[conf].retain
  ELSE IF stateless THEN "false" ELSE "unset"

\* onValueChanged from the result of valueTopic on; `disc` is the state the
\* discovery of the value has left.
publishValue(disc, n, v, val, changed, result) ==
  IF ~result.ok THEN disc
  ELSE Emit(registerTopic(updateClimate(disc, n, v, val, changed), n, v, result),
            WithRetain(Msg("state", result.topic, NoOid, FALSE,
                           encodeValue(config, result.conf, n, v, val)),
                       mqttOptions(config, result.conf, ValueMeta(v).stateless)))

\* onValueChanged, had it resolved the topic and published the state before
\* the discovery of the value.
discoverAfter(g, n, v) ==
  IF config.hassDiscovery /\ ValueIdOf(n, v) \notin DOMAIN g.discovered
  THEN discoverValue(g, n, getIdWithoutNode(n, v)) ELSE g

onValueChangedPublishFirst(g, n, v, val, changed) ==
  IF ~nodes[n].ready /\ ValueMeta(v).stateless THEN g
  ELSE discoverAfter(
         publishValue(g, n, v, val, changed, valueTopic(config, n, v, nodes[n].values)),
         n, v)

\* onValueChanged(valueId, node, changed); val is valueId.value.
onValueChanged(g, n, v, val, changed) ==
  IF ~nodes[n].ready /\ ValueMeta(v).stateless THEN g
  ELSE publishValue(
         IF config.hassDiscovery /\ ValueIdOf(n, v) \notin DOMAIN g.discovered
         THEN discoverValue(g, n, getIdWithoutNode(n, v)) ELSE g,
         n, v, val, changed, valueTopic(config, n, v, nodes[n].values))

\* rediscoverNode, had it kept node.hassDevices.
rediscoverNodeKeepDevices(g, n) ==
  IF ~nodes[n].added THEN g
  ELSE discoverValues(
         discoverDevices(onNodeRemoved(g, n), n, 1),
         n, getPriorityCCFirst(nodes[n].values), 1)

\* Gateway.prototype.rediscoverNode(nodeID).
rediscoverNode(g, n) ==
  IF ~nodes[n].added THEN g
  ELSE discoverValues(
         discoverDevices([onNodeRemoved(g, n) EXCEPT !.hass[n] = <<>>], n, 1),
         n, getPriorityCCFirst(nodes[n].values), 1)

\* disableDiscovery, had it marked every descriptor the gateway holds instead
\* of those of the node's descriptor map.
disableDiscoveryOfAll(g, n) ==
  IF ~nodes[n].added THEN g
  ELSE [g EXCEPT !.heap = [o \in DOMAIN @ |-> [@[o] EXCEPT !.ignoreDiscovery = TRUE]]]

\* Gateway.prototype.disableDiscovery(nodeID).
disableDiscovery(g, n) ==
  IF ~nodes[n].added THEN g
  ELSE [g EXCEPT !.heap =
          [o \in DOMAIN @ |->
             IF \E i \in 1..Len(g.hass[n]) : g.hass[n][i].oid = o
             THEN [@[o] EXCEPT !.ignoreDiscovery = TRUE]
             ELSE @[o]]]

\* The loop, had it passed deleteDevice to publishDiscovery.
RECURSIVE rediscoverDevicesDelete(_, _, _)
rediscoverDevicesDelete(g, n, k) ==
  IF k > Len(g.hass[n]) THEN g
  ELSE rediscoverDevicesDelete(
         IF g.heap[g.hass[n][k].oid].discoveryTopic # <<>>
         THEN publishDiscovery(g, n, g.hass[n][k].oid, TRUE, FALSE) ELSE g,
         n, k + 1)

\* The loop of rediscoverAll over the descriptors of one node.
RECURSIVE rediscoverDevices(_, _, _)
rediscoverDevices(g, n, k) ==
  IF k > Len(g.hass[n]) THEN g
  ELSE rediscoverDevices(
         IF g.heap[g.hass[n][k].oid].discoveryTopic # <<>>
         THEN publishDiscovery(g, n, g.hass[n][k].oid, FALSE, FALSE) ELSE g,
         n, k + 1)

\* The nodes of zwave.nodes in ascending order of id.
RECURSIVE SortedNodes(_)
SortedNodes(S) ==
  IF S = {} THEN <<>>
  ELSE <<CHOOSE x \in S : \A y \in S : x <= y>>
       \o SortedNodes(S \ {CHOOSE x \in S : \A y \in S : x <= y})

RECURSIVE rediscoverNodes(_, _, _)
rediscoverNodes(g, ns, k) ==
  IF k > Len(ns) THEN g
  ELSE rediscoverNodes(rediscoverDevices(g, ns[k], 1), ns, k + 1)

\* Gateway.prototype.rediscoverAll().
rediscoverAll(g) ==
  IF ~config.hassDiscovery THEN g
  ELSE rediscoverNodes(g, SortedNodes({n \in NodeIds : nodes[n].added}), 1)

(***************************************************************************)
(* The state machine.                                                      *)
(***************************************************************************)

\* The descriptor objects something still refers to.
Reachable(g) ==
  {g.discovered[id] : id \in DOMAIN g.discovered}
  \cup UNION {{g.hass[n][i].oid : i \in 1..Len(g.hass[n])} : n \in DOMAIN g.hass}

\* The "hass" api calls a run makes at most.
MaxApiCalls == 2

\* The end of a handler: its effects become the state, the descriptor objects
\* that nothing refers to any more are collected, and `last` records the
\* operation, its arguments and the descriptor objects it created.
Commit(g, op, n, v, device) ==
  /\ heap' = [o \in Reachable(g) |-> g.heap[o]]
  /\ hass' = g.hass
  /\ allDevices' = g.allDevices
  /\ discovered' = g.discovered
  /\ topicValues' = g.topicValues
  /\ topicLevels' = g.topicLevels
  /\ out' = g.out
  /\ subs' = g.subs
  /\ last' = [op |-> op, n |-> n, v |-> v, device |-> device,
              created |-> DOMAIN g.heap \ DOMAIN heap]
  /\ UNCHANGED <<app, mqtt, store>>

NewNode(n) ==
  [added |-> TRUE, ready |-> FALSE, loc |-> NodeInfo(n).loc, values |-> BaseValues(n),
   value |-> [v \in {BaseValues(n)[i] : i \in 1..Len(BaseValues(n))} |-> 0]]

NoNode ==
  [added |-> FALSE, ready |-> FALSE, loc |-> <<>>, values |-> <<>>, value |-> <<>>]

Init ==
  /\ config \in Configs
  /\ \E network \in Networks :
       nodes = [n \in NodeIds |-> IF n \in network THEN NewNode(n) ELSE NoNode]
  /\ hass = [n \in NodeIds |-> <<>>]
  /\ allDevices = [d \in {NodeInfo(n).deviceId : n \in NodeIds} |-> <<>>]
  /\ heap = <<>>
  /\ discovered = <<>>
  /\ topicValues = <<>>
  /\ topicLevels = <<>>
  /\ out = <<>>
  /\ subs = <<>>
  /\ calls = 0
  /\ OnlyGateway
  /\ last = [op |-> "init", n |-> 0, v |-> <<>>, device |-> EmptyDevice,
             created |-> {}]

\* The driver has interviewed a node: all its values are known.
NodeReady(n) ==
  /\ nodes[n].added /\ ~nodes[n].ready
  /\ nodes' = [nodes EXCEPT ![n].ready = TRUE]
  /\ Commit(Gw, "nodeReady", n, <<>>, EmptyDevice)
  /\ UNCHANGED <<config, calls>>

\* The driver adds a value to a node.
ValueAdded(n, v) ==
  /\ nodes[n].added /\ ~HasValue(nodes[n].values, v)
  /\ nodes' = [nodes EXCEPT ![n].values = Append(@, v),
                            ![n].value = FunPut(@, v, 0)]
  /\ Commit(Gw, "valueAdded", n, v, EmptyDevice)
  /\ UNCHANGED <<config, calls>>

\* The driver removes a node: 'nodeRemoved' runs onNodeRemoved.
NodeRemoved(n) ==
  /\ nodes[n].added
  /\ nodes' = [nodes EXCEPT ![n] = NoNode]
  /\ Commit([onNodeRemoved(Gw, n) EXCEPT !.hass[n] = <<>>],
            "nodeRemoved", n, <<>>, EmptyDevice)
  /\ UNCHANGED <<config, calls>>

\* The driver reports a value: 'valueChanged' runs onValueChanged.
ValueChanged(n, v, val, changed) ==
  /\ nodes[n].added /\ HasValue(nodes[n].values, v)
  /\ nodes' = [nodes EXCEPT ![n].value[v] = val]
  /\ Commit(onValueChanged(Gw, n, v, val, changed), "valueChanged", n, v, EmptyDevice)
  /\ UNCHANGED <<config, calls>>

\* The driver reports a node's status: 'nodeStatus' runs onNodeStatus.
NodeStatus(n) ==
  /\ nodes[n].added
  /\ Commit(onNodeStatus(Gw, n), "nodeStatus", n, <<>>, EmptyDevice)
  /\ UNCHANGED <<config, nodes, calls>>

\* The broker or Home Assistant comes online or goes offline: onBrokerStatus
\* and onHassStatus run rediscoverAll when it is online.
BrokerStatus(online) ==
  /\ Commit(IF online THEN rediscoverAll(Gw) ELSE Gw,
            IF online THEN "online" ELSE "offline", 0, <<>>, EmptyDevice)
  /\ UNCHANGED <<config, nodes, calls>>

\* The "hass" api call rediscoverNode.
RediscoverNode(n) ==
  /\ calls < MaxApiCalls
  /\ calls' = calls + 1
  /\ Commit(rediscoverNode(Gw, n), "rediscoverNode", n, <<>>, EmptyDevice)
  /\ UNCHANGED <<config, nodes>>

\* The "hass" api call disableDiscovery.
DisableDiscovery(n) ==
  /\ calls < MaxApiCalls
  /\ calls' = calls + 1
  /\ Commit(disableDiscovery(Gw, n), "disableDiscovery", n, <<>>, EmptyDevice)
  /\ UNCHANGED <<config, nodes>>

\* The descriptors a client can send for a node: those of the node's
\* descriptor map, and the one it has just sent.
ClientDevices(n) ==
  {heap[hass[n][i].oid] : i \in 1..Len(hass[n])}
  \cup (IF last.op \in {"delete", "discover"} /\ last.n = n
        THEN {last.device} ELSE {})

\* The descriptor a client sends arrives as a new object.
receiveDevice(g, oid, device) == [g EXCEPT !.heap = FunPut(@, oid, device)]

\* The "hass" api calls discover and delete:
\* publishDiscovery(device, nodeId, deleteDevice, true).
apiPublishDiscovery(g, n, oid, device, deleteDevice) ==
  publishDiscovery(receiveDevice(g, oid, device), n, oid, deleteDevice, TRUE)

PublishDiscovery(n, device, deleteDevice) ==
  /\ calls < MaxApiCalls
  /\ calls' = calls + 1
  /\ Commit(apiPublishDiscovery(Gw, n, NewOid(Gw, n, HassKey(device.type, device.object_id)),
                                device, deleteDevice),
            IF deleteDevice THEN "delete" ELSE "discover", n, <<>>, device)
  /\ UNCHANGED <<config, nodes>>

Next ==
  \/ \E n \in NodeIds : NodeReady(n)
  \/ \E n \in NodeIds : \E v \in LateValues(n) : ValueAdded(n, v)
  \/ \E n \in NodeIds : NodeRemoved(n)
  \/ \E n \in NodeIds : \E v \in EventValues(n) :
       \E val \in ValueRange(v) : \E changed \in ChangedRange(v) :
         ValueChanged(n, v, val, changed)
  \/ \E n \in NodeIds : NodeStatus(n)
  \/ \E online \in BOOLEAN : BrokerStatus(online)
  \/ \E n \in NodeIds : RediscoverNode(n)
  \/ \E n \in NodeIds : DisableDiscovery(n)
  \/ \E n \in NodeIds : \E device \in ClientDevices(n) :
       \E deleteDevice \in BOOLEAN : PublishDiscovery(n, device, deleteDevice)

Spec == Init /\ [][Next]_vars

(***************************************************************************)
(* The write path, and the specification of the payload transform          *)
(* pipeline: a node with values of one kind, whose values are reported,    *)
(* and write and broadcast requests that carry either a payload the        *)
(* gateway has just published or one of a list of other payloads.          *)
(***************************************************************************)

\* this.zwave.writeValue(valueId, payload): the command handed to the driver
\* for the value registered under a topic.
writeValue(g, topic, payload) == Emit(g, Msg("write", topic, NoOid, FALSE, payload))

\* A write path that hands the payload on whether or not the topic is a key
\* of this.topicValues.
onWriteRequestUntracked(g, topic, payload) ==
  IF topic \notin DOMAIN g.topicValues THEN writeValue(g, topic, payload)
  ELSE writeValue(g, topic,
         parsePayload(g, payload, g.topicValues[topic].n, g.topicValues[topic].v,
                      config, g.topicValues[topic].conf).payload)

\* onWriteRequest(parts, payload); topic is parts.join('/'), the topic of the
\* message without the prefix and the '/set'.
onWriteRequest(g, topic, payload) ==
  IF topic \notin DOMAIN g.topicValues THEN g
  ELSE writeValue(g, topic,
         parsePayload(g, payload, g.topicValues[topic].n, g.topicValues[topic].v,
                      config, g.topicValues[topic].conf).payload)

\* Object.keys(this.topicValues).filter(t => t.endsWith(topic)).
BroadcastTargets(g, topic) == {t \in DOMAIN g.topicValues : EndsWith(t, topic)}

\* this.zwave.writeValue for each target.
RECURSIVE writeAll(_, _, _)
writeAll(g, targets, payload) ==
  IF targets = {} THEN g
  ELSE writeAll(writeValue(g, CHOOSE t \in targets : TRUE, payload),
                targets \ {CHOOSE t \in targets : TRUE}, payload)

\* onBroadRequest(parts, payload); topic is parts.join('/') and `first` the
\* first matching key of this.topicValues, whose value parses the payload
\* (the model does not keep the insertion order of the keys, so that any
\* matching key may be the first).
onBroadRequest(g, topic, payload, first) ==
  IF BroadcastTargets(g, topic) = {} THEN g
  ELSE writeAll(g, BroadcastTargets(g, topic),
         parsePayload(g, payload, g.topicValues[first].n, g.topicValues[first].v,
                      config, g.topicValues[first].conf).payload)

\* The post-operations of the override tables the gateway may be configured
\* with: one operator, several operators, none, and text that is no operation.
PostOperations ==
  { <<"*", "2">>, <<"/", "2">>, <<"+", "1">>, <<"-", "1">>, <<"*", "0">>,
    <<"*", "2", "+", "1">>, <<"/", "2", "/", "2">>, <<"-", "1", "-", "1">>,
    <<"*", "2", "*", "3">>, <<"x">> }

\* The node of the pipeline specification is node 11 with the values of one
\* kind, or the thermostat.
PipelineNodes ==
  { [n |-> 11, values |-> <<V_switchTarget, V_switch>>],
    [n |-> 11, values |-> <<V_target, V_current>>],
    [n |-> 11, values |-> <<V_toggleTarget, V_toggle>>],
    [n |-> 11, values |-> <<V_binToggleTarget, V_binToggle>>],
    [n |-> 11, values |-> <<V_text>>],
    [n |-> 11, values |-> <<V_raw>>],
    [n |-> 11, values |-> <<V_duration>>],
    [n |-> 2, values |-> BaseValues(2)] }

\* The configurations: every envelope, discovery on or off, and for the
\* dimmer the override of its target value by each post-operation.
PipelineConfigs ==
  { [hassDiscovery |-> h, type |-> 0, payloadType |-> p, values |-> <<>>] :
      h \in BOOLEAN, p \in {0, 1, 2} }
  \cup
  { [hassDiscovery |-> FALSE, type |-> 0, payloadType |-> p,
     values |-> << [device |-> "dev-plug", valueId |-> V_target, topic |-> <<>>,
                    postOperation |-> op, retain |-> "undefined",
      device_class |-> <<>>] >>] :
      p \in {2}, op \in PostOperations }

\* The ordinals of the values the driver reports in the pipeline
\* specification.
PipelineRange(v) ==
  CASE v = V_mode -> {0, 1}
    [] v \in {V_setpoint2, V_temp} -> {}
    [] v = V_setpoint1 -> {0}
    [] ValueMeta(v).isCurrentValue -> {0}
    [] ValueMeta(v).type = "number" -> {0, 3}
    [] ValueMeta(v).type = "boolean" -> {0, 1}
    [] ValueMeta(v).type = "string" -> 0..(Len(TextValues) - 1)
    [] ValueMeta(v).type = "any" -> 0..(Len(AnyValues) - 1)
    [] OTHER -> 0..(Len(DurationValues) - 1)

\* Payloads of inbound messages other than the ones the gateway published.
InboundPayloads ==
  << JsNull, JsInt(1), JsBool(TRUE), JsStr(<<"on">>), JsStr(<<"heat">>),
     JsObject(<< [key |-> "type", value |-> JsStr(<<"Buffer">>)],
                 [key |-> "data", value |-> JsBuffer(<<1, 2>>)] >>) >>

\* The descriptor a client sends with the api call discover to take a node's
\* values over.
ClientDevice(n) ==
  [Cfg_sensor_generic EXCEPT !.object_id = <<"client">>, !.values = nodes[n].values]

PipelineInit ==
  /\ \E c \in PipelineNodes : \E cfg \in PipelineConfigs :
       /\ cfg.values # <<>> => c.values = <<V_target, V_current>>
       /\ config = cfg
       /\ nodes = [n \in NodeIds |->
                     IF n = c.n
                     THEN [added |-> TRUE, ready |-> TRUE, loc |-> NodeInfo(n).loc,
                           values |-> c.values,
                           value |-> [v \in {c.values[i] : i \in 1..Len(c.values)} |-> 0]]
                     ELSE NoNode]
  /\ hass = [n \in NodeIds |-> <<>>]
  /\ allDevices = [d \in {NodeInfo(n).deviceId : n \in NodeIds} |-> <<>>]
  /\ heap = <<>>
  /\ discovered = <<>>
  /\ topicValues = <<>>
  /\ topicLevels = <<>>
  /\ out = <<>>
  /\ subs = <<>>
  /\ calls = 0
  /\ OnlyGateway
  /\ last = [op |-> "init", n |-> 0, v |-> <<>>, device |-> EmptyDevice,
             created |-> {}]

\* A message arrives on <prefix>/<topic>/set: 'writeRequest' runs
\* onWriteRequest.
WriteRequest(topic, payload) ==
  /\ Commit(onWriteRequest(Gw, topic, payload), "writeRequest",
            IF topic \in DOMAIN topicValues THEN topicValues[topic].n ELSE 0,
            IF topic \in DOMAIN topicValues THEN topicValues[topic].v ELSE <<>>,
            EmptyDevice)
  /\ UNCHANGED <<config, nodes, calls>>

\* A message arrives on the broadcast topic: 'broadcastRequest' runs
\* onBroadRequest.
BroadRequest(topic, payload, first) ==
  /\ Commit(onBroadRequest(Gw, topic, payload, first),
            "broadcastRequest", 0, topic, EmptyDevice)
  /\ UNCHANGED <<config, nodes, calls>>

\* The payloads an inbound message may carry: the ones of the state messages
\* of the last handler, and the other ones.
RECURSIVE PublishedPayloads(_)
PublishedPayloads(msgs) ==
  IF msgs = <<>> THEN <<>>
  ELSE (IF Head(msgs).kind = "state" THEN <<Head(msgs).payload>> ELSE <<>>)
       \o PublishedPayloads(Tail(msgs))
Payloads == PublishedPayloads(out) \o InboundPayloads

PipelineNext ==
  \/ \E n \in NodeIds : \E v \in {nodes[n].values[i] : i \in 1..Len(nodes[n].values)} :
       \E val \in PipelineRange(v) : ValueChanged(n, v, val, TRUE)
  \/ \E n \in NodeIds : NodeStatus(n)
  \/ \E n \in NodeIds :
       nodes[n].added /\ calls = 0 /\ PublishDiscovery(n, ClientDevice(n), FALSE)
  \/ \E topic \in DOMAIN topicValues : \E i \in 1..Len(Payloads) :
       WriteRequest(topic, Payloads[i])
  \/ \E i \in 1..2 : WriteRequest(<<"no", "/", "value">>, InboundPayloads[i])
  \/ \E first \in DOMAIN topicValues : \E i \in 1..2 :
       BroadRequest(<<"targetValue">>, Payloads[i], first)

PipelineSpec == PipelineInit /\ [][PipelineNext]_vars

(***************************************************************************)
(* The specification of discovery in the manual configuration, where a     *)
(* value has a topic only when the values table gives it one.              *)
(***************************************************************************)

\* The values tables: the color value and the binary switch have a topic,
\* and the multilevel switch has one or none.
ColorOverrides ==
  << [device |-> "dev-light", valueId |-> V_color, topic |-> <<"color">>,
      postOperation |-> <<>>, retain |-> "undefined",
      device_class |-> <<>>],
     [device |-> "dev-light", valueId |-> V_switch, topic |-> <<"switch">>,
      postOperation |-> <<>>, retain |-> "undefined",
      device_class |-> <<>>] >>

DiscoveryConfigs ==
  { [hassDiscovery |-> TRUE, type |-> 2, payloadType |-> 0, values |-> ColorOverrides],
    [hassDiscovery |-> TRUE, type |-> 2, payloadType |-> 0,
     values |-> ColorOverrides \o <<OverrideTable[1]>>],
    [hassDiscovery |-> TRUE, type |-> 0, payloadType |-> 0, values |-> <<>>] }

\* The values of node 1, a light: with a multilevel switch or without, with
\* the color value or without, with a binary switch on each of the
\* endpoints 0, 1 and 2, or with two binary sensors.
DiscoveryValues ==
  { <<V_target, V_current, V_switchTarget, V_switch, V_color>>,
    <<V_switchTarget, V_switch, V_color>>,
    <<V_target, V_current, V_switchTarget, V_switch>>,
    <<V_switchTarget, V_switch, V_switch1Target, V_switch1,
      V_switch2Target, V_switch2>>,
    <<V_sensorLock, V_sensorMotion, V_switchTarget, V_switch>> }

DiscoveryInit ==
  /\ config \in DiscoveryConfigs
  /\ \E values \in DiscoveryValues :
       nodes = [n \in NodeIds |->
                  IF n = 1
                  THEN [added |-> TRUE, ready |-> FALSE, loc |-> NodeInfo(n).loc, values |-> values,
                        value |-> [v \in {values[i] : i \in 1..Len(values)} |-> 0]]
                  ELSE NoNode]
  /\ hass = [n \in NodeIds |-> <<>>]
  /\ allDevices = [d \in {NodeInfo(n).deviceId : n \in NodeIds} |-> <<>>]
  /\ heap = <<>>
  /\ discovered = <<>>
  /\ topicValues = <<>>
  /\ topicLevels = <<>>
  /\ out = <<>>
  /\ subs = <<>>
  /\ calls = 0
  /\ OnlyGateway
  /\ last = [op |-> "init", n |-> 0, v |-> <<>>, device |-> EmptyDevice,
             created |-> {}]

DiscoveryNext ==
  \/ NodeReady(1)
  \/ NodeStatus(1)
  \/ RediscoverNode(1)
  \/ \E v \in {V_switch, V_color, V_switch2} : ValueChanged(1, v, 1, TRUE)

DiscoverySpec == DiscoveryInit /\ [][DiscoveryNext]_vars

(***************************************************************************)
(* The api requests, and their specification.                              *)
(***************************************************************************)

\* A JavaScript array, and whether a value is truthy.
JsArray(items) ==
  Js("array", <<>>, <<>>, [i \in 1..Len(items) |-> [key |-> "item", value |-> items[i]]])
JsTruthy(x) ==
  CASE x.t \in {"null", "undefined"} -> FALSE
    [] x.t \in {"number", "boolean"} -> x.num \notin {<<0>>, <<0, 1>>, <<0, 0>>}
    [] x.t = "string" -> x.str # <<>>
    [] OTHER -> TRUE

\* ZwaveClient.callApi(apiName, ...args): a structured result, successful or
\* not, and never an exception.
callApi(apiName, args, success) ==
  JsObject(<< [key |-> "success", value |-> JsBool(success)],
              [key |-> "message", value |-> JsStr(<<apiName>>)] >>)

\* payload.args || [] of onApiRequest, for a payload that has properties.
apiArgs(payload) ==
  IF payload.t = "object" /\ HasKey(payload, "args") /\ JsTruthy(GetKey(payload, "args"))
  THEN GetKey(payload, "args")
  ELSE JsArray(<<>>)

\* onApiRequest from the arguments on: the call of the device api is
\* recorded as a message of kind "callApi", and the message of kind "api" is
\* this.mqtt.publish(topic, result, { retain: false }).
answerApi(g, topic, apiName, payload, args, success) ==
  IF args.t = "array"
  THEN Emit(Emit(g, Msg("callApi", <<apiName>>, NoOid, FALSE, args)),
            WithRetain(Msg("api", topic, NoOid, FALSE, callApi(apiName, args, success)),
                       "false"))
  ELSE Emit(g, WithRetain(Msg("api", topic, NoOid, FALSE,
              JsObject(<< [key |-> "success", value |-> JsBool(FALSE)],
                          [key |-> "message",
                           value |-> JsStr(<<"Args must be an array">>)],
                          [key |-> "origin", value |-> payload] >>)), "false"))

\* onApiRequest(topic, apiName, payload), with this.zwave set: reading a
\* property of null or undefined throws, and the promise of the handler is
\* rejected.
onApiRequest(g, topic, apiName, payload, success) ==
  IF payload.t \in {"null", "undefined"} THEN [thrown |-> TRUE, g |-> g]
  ELSE [thrown |-> FALSE,
        g |-> answerApi(g, topic, apiName, payload, apiArgs(payload), success)]

\* The payloads of api requests: null, a number, text, an object without
\* args, and objects whose args are an array, a number and 0.
ApiPayloads ==
  << JsNull, JsInt(1), JsStr(<<"hello">>), JsObject(<<>>),
     JsObject(<< [key |-> "args", value |-> JsArray(<<JsInt(2)>>)] >>),
     JsObject(<< [key |-> "args", value |-> JsInt(5)] >>),
     JsObject(<< [key |-> "args", value |-> JsInt(0)] >>) >>

\* The topic of an api request: _CLIENTS/ZWAVE_GATEWAY-<name>/api/<apiName>.
ApiTopic(apiName) ==
  <<"_CLIENTS", "/", "ZWAVE_GATEWAY-zwave", "/", "api", "/", apiName>>

\* A message arrives on <prefix>/<api topic>/set: 'apiCall' runs
\* onApiRequest.
ApiRequest(apiName, payload, success) ==
  /\ Commit(onApiRequest(Gw, ApiTopic(apiName), apiName, payload, success).g,
            IF onApiRequest(Gw, ApiTopic(apiName), apiName, payload, success).thrown
            THEN "apiCallRaised" ELSE "apiCall",
            0, <<apiName>>, EmptyDevice)
  /\ UNCHANGED <<config, nodes, calls>>

ApiNext ==
  \/ NodeReady(1)
  \/ NodeStatus(1)
  \/ \E v \in {V_switch, V_color} : ValueChanged(1, v, 1, TRUE)
  \/ \E i \in 1..Len(ApiPayloads) : \E success \in BOOLEAN :
       ApiRequest("getNodes", ApiPayloads[i], success)

ApiSpec == DiscoveryInit /\ [][ApiNext]_vars

(***************************************************************************)
(* The specification of the topic resolver: nodes with names and locations *)
(* of every kind, under every addressing and with every kind of override.  *)
(***************************************************************************)

\* The nodes of the topic resolver's specification: lamps whose name or
\* location holds a space, a '/', a special character, a number followed by
\* text, only digits, or nothing.
TopicNodeIds == {3, 4, 5, 6, 7}

\* The values of a lamp: the multilevel switch and a sensor whose property
\* holds a space.
LampValues == <<V_target, V_current, V_temp>>

\* The values tables: none, a topic for the current value, a topic with a
\* '/' and a space for it, and an entry that gives it no topic.
LampOverrides ==
  { <<>>,
    << [device |-> "dev-lamp", valueId |-> V_current, topic |-> <<"dimmer">>,
        postOperation |-> <<>>, retain |-> "undefined",
      device_class |-> <<>>] >>,
    << [device |-> "dev-lamp", valueId |-> V_current,
        topic |-> <<"my", " ", "lamp", "/", "level">>, postOperation |-> <<>>, retain |-> "undefined",
      device_class |-> <<>>] >>,
    << [device |-> "dev-lamp", valueId |-> V_current, topic |-> <<>>,
        postOperation |-> <<"*", "2">>, retain |-> "undefined",
      device_class |-> <<>>] >> }

TopicConfigs ==
  { [hassDiscovery |-> FALSE, type |-> t, payloadType |-> 2, values |-> o] :
      t \in {0, 1, 2}, o \in LampOverrides }

TopicInit ==
  /\ config \in TopicConfigs
  /\ \E lamp \in TopicNodeIds :
       nodes = [n \in NodeIds \cup TopicNodeIds |->
                  IF n = lamp
                  THEN [added |-> TRUE, ready |-> TRUE, loc |-> NodeInfo(n).loc,
                        values |-> LampValues,
                        value |-> [v \in {LampValues[i] : i \in 1..Len(LampValues)} |-> 0]]
                  ELSE NoNode]
  /\ hass = [n \in NodeIds \cup TopicNodeIds |-> <<>>]
  /\ allDevices = [d \in {NodeInfo(n).deviceId : n \in NodeIds \cup TopicNodeIds} |-> <<>>]
  /\ heap = <<>>
  /\ discovered = <<>>
  /\ topicValues = <<>>
  /\ topicLevels = <<>>
  /\ out = <<>>
  /\ subs = <<>>
  /\ calls = 0
  /\ OnlyGateway
  /\ last = [op |-> "init", n |-> 0, v |-> <<>>, device |-> EmptyDevice,
             created |-> {}]

TopicNext ==
  \/ \E n \in TopicNodeIds : \E i \in 1..Len(nodes[n].values) :
       ValueChanged(n, nodes[n].values[i], 1, TRUE)
  \/ \E n \in TopicNodeIds : NodeStatus(n)

TopicSpec == TopicInit /\ [][TopicNext]_vars

(***************************************************************************)
(* updateNodeTopics, and the specification of the nodes whose location     *)
(* changes.                                                                *)
(***************************************************************************)

\* One turn of the loop of updateNodeTopics: the entry of topic t is deleted
\* and stored again under the topic valueTopic now gives its value.
updateTopic(tv, n, t, loc) ==
  FunPut(FunDel(tv, t), valueTopicAt(config, n, tv[t].v, loc), tv[t])

\* The loop of updateNodeTopics over the topics of the node. The topics a
\* node's values move to differ from one another and from the topics they
\* leave, so the order of the loop does not show.
RECURSIVE updateTopics(_, _, _, _)
updateTopics(tv, n, topics, loc) ==
  IF topics = {} THEN tv
  ELSE updateTopics(updateTopic(tv, n, CHOOSE t \in topics : TRUE, loc), n,
                    topics \ {CHOOSE t \in topics : TRUE}, loc)

\* Gateway.prototype.updateNodeTopics(nodeId) of a node whose location is loc.
updateNodeTopics(g, n, loc) ==
  IF ~nodes[n].added THEN g
  ELSE [g EXCEPT !.topicValues =
          updateTopics(@, n, {t \in DOMAIN @ : @[t].n = n}, loc)]

\* The location of a node is changed (set, replaced or removed) and
\* updateNodeTopics runs for the node.
UpdateNodeTopics(n, loc) ==
  /\ nodes[n].added /\ nodes[n].loc # loc
  /\ nodes' = [nodes EXCEPT ![n].loc = loc]
  /\ Commit(updateNodeTopics(Gw, n, loc), "updateNodeTopics", n, <<>>, EmptyDevice)
  /\ UNCHANGED <<config, calls>>

\* The locations a node may be given.
Locations == { <<>>, <<"Hall">>, <<"First", " ", "Floor">> }

LocationNext ==
  \/ \E n \in TopicNodeIds : \E i \in 1..Len(nodes[n].values) :
       ValueChanged(n, nodes[n].values[i], 1, TRUE)
  \/ \E n \in TopicNodeIds : \E loc \in Locations : UpdateNodeTopics(n, loc)

LocationSpec == TopicInit /\ [][LocationNext]_vars

(***************************************************************************)
(* The specification of the climate synthesis: thermostats whose mode      *)
(* value supports the modes 0 to 3, or some of them.                       *)
(***************************************************************************)

\* The values of node 2, a thermostat: a mode value with the states 0, 1, 2
\* and 3, with 0 and 2, or with 1 and 2, or none, and one or both setpoints.
ClimateValues ==
  { <<V_temp, V_mode, V_setpoint1, V_setpoint2>>,
    <<V_temp, V_mode1, V_setpoint1, V_setpoint2>>,
    <<V_mode2, V_setpoint2, V_setpoint1>>,
    <<V_mode, V_setpoint2>>,
    <<V_temp, V_setpoint2, V_setpoint1>> }

ClimateConfigs ==
  { [hassDiscovery |-> TRUE, type |-> t, payloadType |-> 0, values |-> <<>>] :
      t \in {0, 1} }

ClimateInit ==
  /\ config \in ClimateConfigs
  /\ \E values \in ClimateValues :
       nodes = [n \in NodeIds |->
                  IF n = 2
                  THEN [added |-> TRUE, ready |-> FALSE, loc |-> NodeInfo(n).loc, values |-> values,
                        value |-> [v \in {values[i] : i \in 1..Len(values)} |-> 0]]
                  ELSE NoNode]
  /\ hass = [n \in NodeIds |-> <<>>]
  /\ allDevices = [d \in {NodeInfo(n).deviceId : n \in NodeIds} |-> <<>>]
  /\ heap = <<>>
  /\ discovered = <<>>
  /\ topicValues = <<>>
  /\ topicLevels = <<>>
  /\ out = <<>>
  /\ subs = <<>>
  /\ calls = 0
  /\ OnlyGateway
  /\ last = [op |-> "init", n |-> 0, v |-> <<>>, device |-> EmptyDevice,
             created |-> {}]

ClimateNext ==
  \/ NodeReady(2)
  \/ NodeStatus(2)
  \/ RediscoverNode(2)
  \/ \E v \in {V_mode, V_mode1, V_mode2} : \E val \in {1, 2} :
       ValueChanged(2, v, val, TRUE)

ClimateSpec == ClimateInit /\ [][ClimateNext]_vars

(***************************************************************************)
(* Properties.                                                             *)
(***************************************************************************)

\* The descriptor objects of a node's descriptor map.
NodeOids(n) == {hass[n][i].oid : i \in 1..Len(hass[n])}

\* The value ids (without the node prefix) a descriptor object lists.
ValuesOf(o) == {heap[o].values[i] : i \in 1..Len(heap[o].values)}

\* The discovery messages of the last handler.
DiscoveryMsgs == {i \in 1..Len(out) : out[i].kind = "discovery"}

\* C1: at most one descriptor owns a value id: no value id is listed among
\* the values of two different descriptors of a node's descriptor map, and
\* the Discovered Map entry of a listed value id is the descriptor listing it.
C1_OneOwner ==
  \A n \in NodeIds : \A o \in NodeOids(n) : \A v \in ValuesOf(o) :
    /\ \A o2 \in NodeOids(n) : v \in ValuesOf(o2) => o2 = o
    /\ ValueIdOf(n, v) \in DOMAIN discovered => discovered[ValueIdOf(n, v)] = o

\* The value ids (with the node prefix) of the descriptor the last api call
\* has sent.
SentIds == {ValueIdOf(last.n, last.device.values[i]) : i \in 1..Len(last.device.values)}

\* C2: immediately after publishDiscovery(descriptor, nodeId, delete = true)
\* no value id of the descriptor is mapped to it in the Discovered Map,
\* whether or not the id was owned before the call.
C2_DeleteRemovesOwnership ==
  last.op = "delete" =>
    \A id \in SentIds : id \in DOMAIN discovered => discovered[id] \notin last.created

\* The "hass" api calls that act on a whole node.
NodeApiOps == {"rediscoverNode", "disableDiscovery"}

\* What the gateway holds about node m: the Discovered Map entries of m's
\* value ids and the descriptors of m's descriptor map, each with the object
\* it is and the fields of that object.
NodeView(m) ==
  [disc |-> [id \in {i \in DOMAIN discovered : StartsWith(i, Digits(m) \o <<"-">>)} |->
               <<discovered[id], heap[discovered[id]]>>],
   map |-> [i \in 1..Len(hass[m]) |-> <<hass[m][i], heap[hass[m][i].oid]>>]]

\* A value change that neither discovers the value (discovery enabled and the
\* value not owned yet) nor reports the mode of a descriptor that owns it.
QuietChange(n, v) ==
  /\ ~(config.hassDiscovery /\ ValueIdOf(n, v) \notin DOMAIN discovered)
  /\ ~(ValueMeta(v).list /\ ValueIdOf(n, v) \in DOMAIN discovered)

\* C3 (as stated): rediscoverNode(n) or disableDiscovery(n) followed by any
\* value change on a different node m leaves the Discovered Map entries of
\* m's value ids and the descriptors of m's descriptor map unchanged. The
\* call itself leaves them unchanged (C3_Isolation), so the statement is
\* that the value change that follows does.
C3_AnyChange ==
  [][\A m \in NodeIds \ {last.n} :
       (last.op \in NodeApiOps /\ last'.op = "valueChanged" /\ last'.n = m)
         => NodeView(m)' = NodeView(m)]_vars

\* C3 (amended): rediscoverNode(n) and disableDiscovery(n) leave the
\* Discovered Map entries and the descriptors of every other node m
\* unchanged, and so does a value change on m that follows, unless it
\* discovers the value or reports the mode of a descriptor owning the value.
C3_Isolation ==
  [][/\ last'.op \in NodeApiOps =>
          \A m \in NodeIds \ {last'.n} : NodeView(m)' = NodeView(m)
     /\ \A m \in NodeIds \ {last.n} :
          (/\ last.op \in NodeApiOps /\ last'.op = "valueChanged"
           /\ last'.n = m /\ QuietChange(m, last'.v))
            => NodeView(m)' = NodeView(m)]_vars

\* A value of a node with descriptors has changed after discovery has been
\* disabled for another node that has descriptors.
C3_Witness ==
  /\ last.op = "valueChanged" /\ calls > 0 /\ hass[last.n] # <<>>
  /\ ValueIdOf(last.n, last.v) \in DOMAIN discovered
  /\ \E n \in NodeIds \ {last.n} :
       /\ hass[n] # <<>>
       /\ \A i \in 1..Len(hass[n]) : heap[hass[n][i].oid].ignoreDiscovery

\* A value discoverValue builds a descriptor for: valueTopic resolves a topic
\* for it and the switch on its command class chooses a configuration.
Discoverable(n, v) ==
  /\ HasValue(nodes[n].values, v)
  /\ valueTopic(config, n, v, nodes[n].values).ok
  /\ valueTopic(config, n, v, nodes[n].values).topic # <<>>
  /\ Classify(n, v, nodes[n].values, ValueMeta(v), <<>>, <<>>).kind = "cfg"

\* The messages of the last handler that publish a value's state.
StateMsgs == {i \in 1..Len(out) : out[i].kind = "state"}

\* The last handler has created the descriptor that owns value v of node n,
\* registered it in the node's descriptor map and emitted its discovery
\* message ahead of every state message.
DiscoveredFirst(n, v) ==
  /\ ValueIdOf(n, v) \in DOMAIN discovered
  /\ discovered[ValueIdOf(n, v)] \in last.created
  /\ discovered[ValueIdOf(n, v)] \in NodeOids(n)
  /\ StateMsgs # {}
  /\ \E i \in DiscoveryMsgs :
       /\ out[i].oid = discovered[ValueIdOf(n, v)] /\ ~out[i].removal
       /\ \A j \in StateMsgs : i < j

\* C4: in the valueChanged handler, when discovery is enabled and the value
\* is not owned yet, the discovery of a discoverable value of a ready node
\* completes (descriptor registered, discovery message emitted) before the
\* value's state is published.
C4_DiscoveryBeforeState ==
  [][\A n \in NodeIds : \A v \in EventValues(n) :
       (/\ last'.op = "valueChanged" /\ last'.n = n /\ last'.v = v
        /\ config.hassDiscovery /\ ValueIdOf(n, v) \notin DOMAIN discovered
        /\ nodes[n].ready /\ Discoverable(n, v))
         => DiscoveredFirst(n, v)']_vars

\* A value change has discovered the value and then published its state.
C4_Witness ==
  /\ last.op = "valueChanged" /\ nodes[last.n].ready
  /\ DiscoveredFirst(last.n, last.v)

\* The subscribe calls of the last handler.
SubscribeMsgs == {i \in 1..Len(out) : out[i].kind = "subscribe"}

\* The segment depths of the topics of a Topic-Value Map.
Depths(tv) == {TopicLevelCount(t) : t \in DOMAIN tv}

\* The number of '+' segments of a pattern.
PlusCount(pattern) == Cardinality({k \in 1..Len(pattern) : pattern[k] = "+"})

\* C5: one wildcard subscription per distinct topic depth: a handler
\* subscribes exactly when it registers a writeable value at a depth no
\* registered topic had, with a pattern of that many '+' segments; over the
\* whole run there are as many subscribe calls as depths, and topicLevels
\* holds no duplicate.
C5_OneSubscriptionPerDepth ==
  [][/\ Cardinality(SubscribeMsgs') =
          Cardinality(Depths(topicValues') \ Depths(topicValues))
     /\ \A i \in SubscribeMsgs' :
          /\ PlusCount(out'[i].topic) \in Depths(topicValues') \ Depths(topicValues)
          /\ Len(out'[i].topic) = 2 * PlusCount(out'[i].topic) - 1
     /\ Len(subs') = Cardinality(Depths(topicValues'))
     /\ {PlusCount(subs'[i]) : i \in 1..Len(subs')} = Depths(topicValues')
     /\ {topicLevels'[i] : i \in 1..Len(topicLevels')} = Depths(topicValues')
     /\ \A i, j \in 1..Len(topicLevels') :
          topicLevels'[i] = topicLevels'[j] => i = j]_vars

\* A value change has registered a writeable value at a depth another
\* registered topic already had, without a subscribe call.
C5_Witness ==
  /\ last.op = "valueChanged" /\ SubscribeMsgs = {}
  /\ \E t \in DOMAIN topicValues :
       /\ topicValues[t].n = last.n /\ topicValues[t].v = last.v
       /\ \E t2 \in DOMAIN topicValues \ {t} :
            /\ TopicLevelCount(t2) = TopicLevelCount(t)
            /\ topicValues[t2].n # last.n
  /\ Len(subs) = 1

\* A handler result that has left the Discovered Map, every descriptor map
\* and every descriptor as they are and has published no discovery message.
NothingDiscovered(g) ==
  /\ g.discovered = discovered /\ g.hass = hass /\ g.heap = heap
  /\ \A i \in 1..Len(g.out) : g.out[i].kind # "discovery"

\* C6: discoverValue(node, valueId) changes nothing (Discovered Map and the
\* node's descriptor map unchanged, no discovery message) when the node is
\* not ready, the value id is already owned, or valueTopic resolves no topic.
C6_DiscoverValueSkips ==
  \A n \in NodeIds : \A i \in 1..Len(nodes[n].values) :
    (\/ ~nodes[n].ready
     \/ ValueIdOf(n, nodes[n].values[i]) \in DOMAIN discovered
     \/ ~valueTopic(config, n, nodes[n].values[i], nodes[n].values).ok)
      => NothingDiscovered(discoverValue(Gw, n, nodes[n].values[i]))

\* A value change has run discoverValue for an unowned value that would be
\* discovered on a ready node, while the node was not ready, and nothing has
\* been discovered.
C6_Witness ==
  /\ last.op = "valueChanged" /\ config.hassDiscovery
  /\ ~nodes[last.n].ready /\ Discoverable(last.n, last.v)
  /\ ValueIdOf(last.n, last.v) \notin DOMAIN discovered
  /\ hass[last.n] = <<>> /\ DiscoveryMsgs = {} /\ StateMsgs # {}

\* The Discovered Map entries of node n's value ids.
NodeEntries(n) == {id \in DOMAIN discovered : StartsWith(id, Digits(n) \o <<"-">>)}

\* C7: after rediscoverNode(n) on a ready node, no descriptor from before the
\* call is left in n's descriptor map or owns a value id of n, every
\* discoverable value of n is owned, and every descriptor of n has been
\* created by the call with ignoreDiscovery false.
C7_RediscoverNodeFresh ==
  (last.op = "rediscoverNode" /\ nodes[last.n].ready) =>
    /\ NodeOids(last.n) \subseteq last.created
    /\ \A id \in NodeEntries(last.n) : discovered[id] \in last.created
    /\ \A o \in NodeOids(last.n) : ~heap[o].ignoreDiscovery
    /\ \A id \in NodeEntries(last.n) : ~heap[discovered[id]].ignoreDiscovery
    /\ \A i \in 1..Len(nodes[last.n].values) :
         Discoverable(last.n, nodes[last.n].values[i])
           => ValueIdOf(last.n, nodes[last.n].values[i]) \in DOMAIN discovered

\* rediscoverNode has run as the second api call on a ready node and has
\* left descriptors that own discoverable values.
C7_Witness ==
  /\ last.op = "rediscoverNode" /\ nodes[last.n].ready /\ calls = 2
  /\ hass[last.n] # <<>> /\ NodeEntries(last.n) # {}
  /\ \E i \in 1..Len(nodes[last.n].values) :
       Discoverable(last.n, nodes[last.n].values[i])

\* The handlers C8 names: nodeStatus, rediscoverAll (the broker or Home
\* Assistant coming online) and a value change (a climate mode change).
ResyncOps == {"nodeStatus", "online", "valueChanged"}

\* C8: disableDiscovery(n) sets ignoreDiscovery on every descriptor of n's
\* descriptor map and leaves the Discovered Map and the descriptor maps as
\* they are; a descriptor that is ignored stays ignored as long as it exists;
\* and nodeStatus, rediscoverAll and value changes emit no discovery message
\* for a descriptor that is ignored.
C8_DisabledStaysSilent ==
  [][/\ last'.op = "disableDiscovery" =>
          /\ discovered' = discovered /\ hass' = hass
          /\ DOMAIN heap' = DOMAIN heap /\ DiscoveryMsgs' = {}
          /\ \A n \in NodeIds : \A o \in NodeOids(n) :
               (n = last'.n /\ nodes[n].added) => heap'[o].ignoreDiscovery
     /\ \A o \in DOMAIN heap \cap DOMAIN heap' :
          heap[o].ignoreDiscovery => heap'[o].ignoreDiscovery
     /\ last'.op \in ResyncOps =>
          \A i \in DiscoveryMsgs' :
            out'[i].oid \in DOMAIN heap => ~heap[out'[i].oid].ignoreDiscovery]_vars

\* The broker has come online with discovery enabled while a node has an
\* ignored descriptor with a discovery topic, and no discovery message has
\* been emitted for it.
C8_Witness ==
  /\ last.op = "online" /\ config.hassDiscovery
  /\ \E n \in NodeIds : \E o \in NodeOids(n) :
       /\ heap[o].ignoreDiscovery /\ heap[o].discoveryTopic # <<>>
       /\ \A i \in DiscoveryMsgs : out[i].oid # o

\* The descriptors rediscoverAll publishes: those of the descriptor maps that
\* are not ignored and have a discovery topic.
Published == {o \in UNION {NodeOids(n) : n \in NodeIds} :
                ~heap[o].ignoreDiscovery /\ heap[o].discoveryTopic # <<>>}

\* The last handler has emitted one discovery message for each published
\* descriptor, carrying its payload, and no other discovery message.
EmittedOnce ==
  /\ \A o \in Published :
       Cardinality({i \in DiscoveryMsgs : out[i].oid = o}) = 1
  /\ \A i \in DiscoveryMsgs :
       /\ out[i].oid \in Published /\ ~out[i].removal
       /\ out[i].topic = heap[out[i].oid].discoveryTopic
       /\ out[i].payload = heap[out[i].oid].discovery_payload

\* C9: rediscoverAll is an idempotent full resync: when the broker or Home
\* Assistant comes online with discovery enabled, each non-ignored descriptor
\* with a discovery topic is emitted exactly once; a second resync right
\* after the first emits the same messages and leaves the Discovered Map,
\* the descriptor maps and every descriptor as the first left them.
C9_ResyncIdempotent ==
  [][/\ (last'.op = "online" /\ config.hassDiscovery) => EmittedOnce'
     /\ (last.op = "online" /\ last'.op = "online") =>
          /\ out' = out /\ discovered' = discovered
          /\ hass' = hass /\ heap' = heap]_vars

\* The broker has come online with discovery enabled and "just value"
\* payloads, at least two descriptors have been emitted, and a published
\* descriptor lists a value id the Discovered Map holds.
C9_Witness ==
  /\ last.op = "online" /\ config.hassDiscovery /\ config.payloadType = 2
  /\ Cardinality(DiscoveryMsgs) >= 2
  /\ \E o \in Published : \E v \in ValuesOf(o) :
       \E n \in NodeIds : o \in NodeOids(n) /\ ValueIdOf(n, v) \in DOMAIN discovered

\* C10: nodeRemoved(n) deletes exactly the Discovered Map entries whose value
\* id begins with n's id followed by '-': every other entry is kept as it is
\* (also those of node 11 when node 1 is removed), and the Topic-Value Map,
\* topicLevels and the subscriptions are unchanged.
C10_RemovePurgesByPrefix ==
  [][last'.op = "nodeRemoved" =>
       /\ DOMAIN discovered' = DOMAIN discovered \ NodeEntries(last'.n)
       /\ \A id \in DOMAIN discovered' : discovered'[id] = discovered[id]
       /\ \A m \in NodeIds : m # last'.n => NodeEntries(m)' = NodeEntries(m)
       /\ topicValues' = topicValues /\ topicLevels' = topicLevels
       /\ subs' = subs]_vars

\* Node 1 has been removed: no entry of node 1 is left, node 11 still has its
\* entries, and a write-back entry of node 1 remains in the Topic-Value Map.
C10_Witness ==
  /\ last.op = "nodeRemoved" /\ last.n = 1
  /\ NodeEntries(1) = {} /\ NodeEntries(11) # {}
  /\ \E t \in DOMAIN topicValues : topicValues[t].n = 1

\* The descriptor that owns a list value of node n before a step, when it has
\* a setpoint map.
ModeOwners(n, v) ==
  {o \in DOMAIN heap : /\ ValueMeta(v).list
                       /\ ValueIdOf(n, v) \in DOMAIN discovered
                       /\ discovered[ValueIdOf(n, v)] = o
                       /\ heap[o].setpoint_topic # <<>>}

\* The mode a valueChanged reports calls for re-pointing descriptor d: it is
\* not d's off mode and d maps it to a setpoint value the node has.
Repoints(d, n, val) ==
  /\ ~(PairHas(d.mode_map, "off") /\ PairGet(d.mode_map, "off", UndefStr) = Digits(val))
  /\ PairHas(d.setpoint_topic, val)
  /\ HasValue(nodes[n].values, PairGet(d.setpoint_topic, val, <<>>))

\* The topic the states of the setpoint of mode val are published on, with the
\* transport prefix.
SetpointTopic(d, n, val) ==
  getTopic(valueTopic(config, n, PairGet(d.setpoint_topic, val, <<>>),
                      nodes[n].values).topic, FALSE)

\* The discovery messages of the last handler for descriptor object o.
DiscoveryMsgsOf(o) == {i \in DiscoveryMsgs : out[i].oid = o}

\* What a valueChanged step with flag `changed` for a mode value owned by o
\* does to o; `silent` tells whether an ignored descriptor is exempt from the
\* republication.
RewireStep(o, n, v, changed, silent) ==
  IF changed /\ Repoints(heap[o], n, nodes'[n].value[v])
  THEN /\ heap'[o].discovery_payload.temperature_state_topic =
            SetpointTopic(heap[o], n, nodes'[n].value[v])
       /\ heap'[o].discovery_payload.temperature_command_topic =
            SetpointTopic(heap[o], n, nodes'[n].value[v]) \o <<"/", "set">>
       /\ (DiscoveryMsgsOf(o)' # {}) <=>
            /\ SetpointTopic(heap[o], n, nodes'[n].value[v]) #
                 heap[o].discovery_payload.temperature_state_topic
            /\ ~(silent /\ heap[o].ignoreDiscovery)
  ELSE heap'[o] = heap[o] /\ DiscoveryMsgsOf(o)' = {}

\* C11 as stated: a valueChanged with changed = true for the mode value owned
\* by a descriptor with a setpoint map, reporting a mode that is not the off
\* mode and has a mapped setpoint the node has, leaves temperature_state_topic
\* at that setpoint's topic and temperature_command_topic at it plus '/set',
\* and the descriptor is republished if and only if the topic differs from the
\* one it had; for the off mode, an unmapped mode or changed = false the
\* descriptor is neither modified nor republished.
C11_RewireRepublishes ==
  [][\A n \in NodeIds : \A v \in EventValues(n) : \A changed \in BOOLEAN :
       \A o \in ModeOwners(n, v) :
         (/\ last'.op = "valueChanged" /\ last'.n = n /\ last'.v = v
          /\ ValueChanged(n, v, nodes'[n].value[v], changed))
         => RewireStep(o, n, v, changed, FALSE)]_vars

\* C11, amended: the same, except that a descriptor whose discovery has been
\* disabled is re-pointed without being republished.
C11_RewireUnlessIgnored ==
  [][\A n \in NodeIds : \A v \in EventValues(n) : \A changed \in BOOLEAN :
       \A o \in ModeOwners(n, v) :
         (/\ last'.op = "valueChanged" /\ last'.n = n /\ last'.v = v
          /\ ValueChanged(n, v, nodes'[n].value[v], changed))
         => RewireStep(o, n, v, changed, TRUE)]_vars

\* The thermostat has reported mode 2 (cool): its climate descriptor, built
\* for the setpoint of mode 1, now names the topic of the setpoint of mode 2
\* and has been republished by the handler.
C11_Witness ==
  /\ last.op = "valueChanged" /\ last.n = 2 /\ last.v = V_mode
  /\ nodes[2].value[V_mode] = 2
  /\ ValueIdOf(2, V_mode) \in DOMAIN discovered
  /\ heap[discovered[ValueIdOf(2, V_mode)]].type = "climate"
  /\ heap[discovered[ValueIdOf(2, V_mode)]].discovery_payload.temperature_state_topic =
       <<"zwave", "/", "Kitchen", "/", "2", "/", "6", "7", "/", "0", "/",
         "setpoint", "/", "2">>
  /\ heap[discovered[ValueIdOf(2, V_mode)]].discovery_payload.temperature_command_topic =
       <<"zwave", "/", "Kitchen", "/", "2", "/", "6", "7", "/", "0", "/",
         "setpoint", "/", "2", "/", "set">>
  /\ DiscoveryMsgsOf(discovered[ValueIdOf(2, V_mode)]) # {}

\* A step that hands the payload of state message i of the last handler, a
\* valueChanged, back to the gateway as a write request on the topic of the
\* message, for a value without a post-operation.
EchoStep(i) ==
  /\ last.op = "valueChanged" /\ out[i].kind = "state"
  /\ out[i].topic \in DOMAIN topicValues
  /\ topicValues[out[i].topic].n = last.n /\ topicValues[out[i].topic].v = last.v
  /\ \/ topicValues[out[i].topic].conf = 0
     \/ ~isValidOperation(config.values[topicValues[out[i].topic].conf].postOperation)
  /\ WriteRequest(out[i].topic, out[i].payload)

\* The value the driver has reported last for the value of the last handler.
ReportedValue == JsValue(last.v, nodes[last.n].value[last.v])

\* The values decoding does not give back: for a value owned by a descriptor
\* a toggle and text with one of the words that stand for a boolean, for a
\* value of type any text, and under the "just value" envelope an object
\* that has a property value.
BooleanWords == {"true", "on", "lock", "false", "off", "unlock"}
NotGivenBack ==
  \/ /\ ValueIdOf(last.n, last.v) \in DOMAIN discovered
     /\ \/ ValueMeta(last.v).commandClass
             \in {CC_Binary_Toggle_Switch, CC_Multilevel_Toggle_Switch}
        \/ /\ ReportedValue.t = "string" /\ isNaN(ReportedValue)
           /\ HasWord(ReportedValue.str, BooleanWords)
  \/ ValueMeta(last.v).type = "any" /\ ReportedValue.t = "string"
  \/ /\ config.payloadType = 2
     /\ ReportedValue.t = "object" /\ HasKey(ReportedValue, "value")

\* C12 as stated: without a post-operation and hooks, parsePayload applied to
\* the payload the encode path of valueChanged produces for a value v gives
\* v, for every value of every type and class, in every envelope, owned by a
\* descriptor or not: the write request that echoes a state message writes
\* the value reported.
C12_RoundTrip ==
  [][\A i \in 1..Len(out) :
       EchoStep(i) =>
         out' = <<Msg("write", out[i].topic, NoOid, FALSE, ReportedValue)>>]_vars

\* C12, amended: the same, except for the values decoding does not give
\* back (NotGivenBack).
C12_RoundTripOfPlainValues ==
  [][\A i \in 1..Len(out) :
       (EchoStep(i) /\ ~NotGivenBack) =>
         out' = <<Msg("write", out[i].topic, NoOid, FALSE, ReportedValue)>>]_vars

\* A write request has written true to the target of the binary switch, which
\* a descriptor owns and whose value is true, under the envelope with the time.
C12_Witness ==
  /\ last.op = "writeRequest" /\ last.n = 11 /\ last.v = V_switchTarget
  /\ config.payloadType = 0
  /\ ValueIdOf(11, V_switchTarget) \in DOMAIN discovered
  /\ nodes[11].value[V_switchTarget] = 1
  /\ Len(out) = 1 /\ out[1].kind = "write" /\ out[1].payload = JsBool(TRUE)

\* A step that hands the payload of state message i of the last handler, a
\* valueChanged, back to the gateway as a write request on the topic of the
\* message, for a value whose override has a valid post-operation.
OperationEchoStep(i) ==
  /\ last.op = "valueChanged" /\ out[i].kind = "state"
  /\ out[i].topic \in DOMAIN topicValues
  /\ topicValues[out[i].topic].n = last.n /\ topicValues[out[i].topic].v = last.v
  /\ topicValues[out[i].topic].conf # 0
  /\ isValidOperation(config.values[topicValues[out[i].topic].conf].postOperation)
  /\ WriteRequest(out[i].topic, out[i].payload)

\* C13: for every post-operation isValidOperation accepts, with one operator
\* or with several, and every numeric value v, decoding reverts what encoding
\* applied: the write request that echoes the state message of v writes v.
C13_PostOperationInverse ==
  [][\A i \in 1..Len(out) :
       (OperationEchoStep(i) /\ ValueMeta(last.v).type = "number") =>
         out' = <<Msg("write", out[i].topic, NoOid, FALSE, ReportedValue)>>]_vars

\* parsePayload catches an error for payload i of an inbound message that
\* addresses the value of a topic.
DecodeThrows(topic, i) ==
  parsePayload(Gw, Payloads[i], topicValues[topic].n, topicValues[topic].v,
               config, topicValues[topic].conf).thrown

\* C14: when parsePayload raises an exception while it decodes the payload
\* of a write request or of a broadcast request, the write is skipped: the
\* handler issues no write command to the device.
C14_DecodeErrorSkipsWrite ==
  [][\A topic \in DOMAIN topicValues : \A i \in 1..Len(Payloads) :
       (/\ DecodeThrows(topic, i)
        /\ \/ WriteRequest(topic, Payloads[i])
           \/ BroadRequest(<<"targetValue">>, Payloads[i], topic))
       => \A k \in 1..Len(out') : out'[k].kind # "write"]_vars

\* discoverValue throws for value v of node n: the value has a topic and
\* the switch on its command class throws while it builds the descriptor.
DiscoveryThrows(n, v) ==
  /\ HasValue(nodes[n].values, v) /\ nodes[n].ready
  /\ valueTopic(config, n, v, nodes[n].values).ok
  /\ Classify(n, v, nodes[n].values, ValueMeta(v), <<>>, <<>>).kind = "throw"

\* The value ids of a node without value v.
WithoutValue(ids, v) == SelectSeq(ids, LAMBDA id : id # v)

\* onNodeStatus and rediscoverNode of a node that does not have value v.
onNodeStatusWithout(g, n, v) ==
  publishStatus(
    IF nodes[n].ready /\ config.hassDiscovery
    THEN discoverValues(
           discoverDevices(discoverClimates(publishPersistent(g, n, 1), n), n, 1),
           n, WithoutValue(getPriorityCCFirst(nodes[n].values), v), 1)
    ELSE g, n)
rediscoverNodeWithout(g, n, v) ==
  discoverValues(
    discoverDevices([onNodeRemoved(g, n) EXCEPT !.hass[n] = <<>>], n, 1),
    n, WithoutValue(getPriorityCCFirst(nodes[n].values), v), 1)

\* The state a handler leaves is the state g.
LeavesState(g) ==
  /\ hass' = g.hass /\ discovered' = g.discovered
  /\ \A o \in DOMAIN heap' : heap'[o] = g.heap[o]
  /\ topicValues' = g.topicValues /\ out' = g.out /\ subs' = g.subs

\* No entry of the Discovered Map and no descriptor of the node's descriptor
\* map stands for value v of node n.
NotRegistered(n, v) ==
  /\ ValueIdOf(n, v) \notin DOMAIN discovered
  /\ \A k \in 1..Len(hass[n]) : ~Includes(heap[hass[n][k].oid].values, v)

\* C15: when discoverValue throws for a value during the discovery of
\* onNodeStatus or of rediscoverNode, the handler does not raise, the
\* Discovered Map and the node's descriptor map gain no entry for the value,
\* and the handler leaves the state it leaves for the node without the value.
C15_DiscoveryErrorIsolated ==
  [][\A v \in {V_color, V_current, V_switch} :
       /\ (DiscoveryThrows(1, v) /\ config.hassDiscovery /\ NodeStatus(1))
            => (NotRegistered(1, v)' /\ LeavesState(onNodeStatusWithout(Gw, 1, v)))
       /\ (DiscoveryThrows(1, v) /\ RediscoverNode(1))
            => (NotRegistered(1, v)' /\ LeavesState(rediscoverNodeWithout(Gw, 1, v)))]_vars

\* Discovery of node 1 has thrown for the color value, whose multilevel switch
\* has no topic, and has discovered the binary switch all the same.
C15_Witness ==
  /\ last.op \in {"nodeStatus", "rediscoverNode"} /\ last.n = 1
  /\ DiscoveryThrows(1, V_color)
  /\ NotRegistered(1, V_color)
  /\ ValueIdOf(1, V_switch) \in DOMAIN discovered
  /\ heap[discovered[ValueIdOf(1, V_switch)]].type = "switch"

\* C16: whatever the payload of an apiCall event (args an array, not an
\* array or missing, the payload null or not an object), the handler does
\* not raise and publishes exactly one structured result to the topic of the
\* request; when args is not an array the result is the failure 'Args must
\* be an array' and the device api is not called.
C16_ApiAlwaysAnswers ==
  [][\A i \in 1..Len(ApiPayloads) : \A success \in BOOLEAN :
       ApiRequest("getNodes", ApiPayloads[i], success) =>
         /\ last'.op = "apiCall"
         /\ Cardinality({k \in 1..Len(out') : out'[k].kind = "api"}) = 1
         /\ \A k \in 1..Len(out') :
              out'[k].kind = "api" =>
                /\ out'[k].topic = ApiTopic("getNodes")
                /\ HasKey(out'[k].payload, "success")
                /\ HasKey(out'[k].payload, "message")
         /\ apiArgs(ApiPayloads[i]).t # "array" =>
              /\ \A k \in 1..Len(out') : out'[k].kind # "callApi"
              /\ \A k \in 1..Len(out') :
                   out'[k].kind = "api" =>
                     /\ GetKey(out'[k].payload, "success") = JsBool(FALSE)
                     /\ GetKey(out'[k].payload, "message")
                          = JsStr(<<"Args must be an array">>)]_vars

\* The values table holds an entry with a topic for the device of node n and
\* value v, and the topic of that entry.
HasOverride(n, v) ==
  \E i \in 1..Len(config.values) :
    /\ config.values[i].device = NodeInfo(n).deviceId
    /\ config.values[i].valueId = v /\ config.values[i].topic # <<>>
OverrideTopic(n, v) ==
  config.values[CHOOSE i \in 1..Len(config.values) :
                  /\ config.values[i].device = NodeInfo(n).deviceId
                  /\ config.values[i].valueId = v
                  /\ config.values[i].topic # <<>>].topic

\* [location/]nodeName/overrideTopic, each level sanitized; the name of a
\* node without a name is nodeID_<id>.
OverriddenTopic(n, v) ==
  (IF nodes[n].loc # <<>> THEN sanitizeTopic(nodes[n].loc, FALSE) \o <<"/">>
   ELSE <<>>)
  \o sanitizeTopic(IF NodeInfo(n).name # <<>> THEN NodeInfo(n).name
                   ELSE <<"nodeID", "_">> \o Digits(n), FALSE)
  \o <<"/">> \o sanitizeTopic(OverrideTopic(n, v), FALSE)

\* The topics of the state messages of the last handler.
StateTopics == {out[k].topic : k \in {j \in 1..Len(out) : out[j].kind = "state"}}

\* C17: in every addressing, when the values table holds an entry with a
\* topic for the value, valueTopic returns [location/]nodeName/overrideTopic
\* and the value is published there; in the manual addressing without such
\* an entry valueTopic returns null and the value is not published.
C17_OverrideWins ==
  last.op = "valueChanged" =>
    /\ HasOverride(last.n, last.v) =>
         /\ valueTopic(config, last.n, last.v, nodes[last.n].values).ok
         /\ valueTopic(config, last.n, last.v, nodes[last.n].values).topic
              = OverriddenTopic(last.n, last.v)
         /\ StateTopics = {OverriddenTopic(last.n, last.v)}
    /\ (config.type = 2 /\ ~HasOverride(last.n, last.v)) =>
         /\ ~valueTopic(config, last.n, last.v, nodes[last.n].values).ok
         /\ StateTopics = {}

\* Under the named addressing the current value of the lamp "Desk#1" on the
\* "First Floor" has been published on the topic its override names.
C17_Witness ==
  /\ last.op = "valueChanged" /\ last.n = 5 /\ last.v = V_current
  /\ config.type = 1 /\ HasOverride(5, V_current)
  /\ StateTopics = {<<"First", "_", "Floor", "/", "Desk", "1", "/", "dimmer">>}

\* A topic without whitespace and without a character outside the allowed
\* set.
CleanTopic(t) == \A i \in 1..Len(t) : t[i] # " " /\ t[i] \notin SpecialTokens

\* The number of levels of the topic of value v of node n: the location if
\* the node has one, and either the name and the levels of the override's
\* topic, or the four computed levels and the property key if there is one.
ValueLevelCount(n, v) ==
  (IF nodes[n].loc # <<>> THEN 1 ELSE 0)
  + (IF HasOverride(n, v) THEN 1 + TopicLevelCount(OverrideTopic(n, v))
     ELSE 4 + (IF ValueMeta(v).propertyKey # <<>> THEN 1 ELSE 0))

\* C18: every level of a topic nodeTopic or valueTopic returns is sanitized:
\* the topic of a state or status message holds no whitespace and no
\* character outside the allowed set, and a '/' inside a node name, a
\* location, a property or a property key adds no level to it.
C18_LevelsSanitized ==
  /\ last.op = "valueChanged" =>
       \A t \in StateTopics :
         CleanTopic(t) /\ TopicLevelCount(t) = ValueLevelCount(last.n, last.v)
  /\ last.op = "nodeStatus" =>
       \A k \in 1..Len(out) :
         out[k].kind = "status" =>
           /\ CleanTopic(out[k].topic)
           /\ TopicLevelCount(out[k].topic)
                = (IF NodeInfo(last.n).loc # <<>> THEN 1 ELSE 0) + 2

\* The descriptor that owns value v of node n.
OwnerOf(n, v) == heap[discovered[ValueIdOf(n, v)]]

\* The type and the object id the switch of discoverValue gives value v.
ClassOf(n, v) == Classify(n, v, nodes[n].values, ValueMeta(v), <<>>, <<>>)

\* Values v and w of node n are classified alike and sit on different
\* endpoints other than 0, and discoverValue has registered both.
SameClassOnEndpoints(n, v, w) ==
  /\ HasValue(nodes[n].values, v) /\ HasValue(nodes[n].values, w)
  /\ ValueMeta(v).endpoint # 0 /\ ValueMeta(w).endpoint # 0
  /\ ValueMeta(v).endpoint # ValueMeta(w).endpoint
  /\ ClassOf(n, v).kind = "cfg" /\ ClassOf(n, w).kind = "cfg"
  /\ ClassOf(n, v).cfg.type = ClassOf(n, w).cfg.type
  /\ ClassOf(n, v).cfg.object_id = ClassOf(n, w).cfg.object_id
  /\ ValueIdOf(n, v) \in DOMAIN discovered /\ ValueIdOf(n, w) \in DOMAIN discovered

\* C19: two values of a node that are classified with the same type and
\* object id and sit on different endpoints other than 0 are registered
\* under distinct object ids, each the object id with '_<endpoint>' appended,
\* so that both descriptors are in the node's descriptor map and their
\* discovery topics differ.
C19_EndpointsKeptApart ==
  \A v \in {V_switch1, V_switch2} : \A w \in {V_switch1, V_switch2} :
    SameClassOnEndpoints(1, v, w) =>
      /\ StartsWith(OwnerOf(1, v).object_id,
           ClassOf(1, v).cfg.object_id \o <<"_">> \o Digits(ValueMeta(v).endpoint))
      /\ OwnerOf(1, v).object_id # OwnerOf(1, w).object_id
      /\ discovered[ValueIdOf(1, v)] # discovered[ValueIdOf(1, w)]
      /\ \E k \in 1..Len(hass[1]) : hass[1][k].oid = discovered[ValueIdOf(1, v)]
      /\ \E k \in 1..Len(hass[1]) : hass[1][k].oid = discovered[ValueIdOf(1, w)]
      /\ OwnerOf(1, v).discoveryTopic # OwnerOf(1, w).discoveryTopic

\* The binary switches of the endpoints 1 and 2 of node 1 are discovered as
\* switch_1 and switch_2.
C19_Witness ==
  /\ SameClassOnEndpoints(1, V_switch1, V_switch2)
  /\ OwnerOf(1, V_switch1).object_id = <<"switch", "_", "1">>
  /\ OwnerOf(1, V_switch2).object_id = <<"switch", "_", "2">>

\* The climate templates discoverClimates has synthesized for the
\* thermostat, the mode value it has read, and the ordinals M of its states.
ClimateTemplates ==
  SelectSeq(allDevices[NodeInfo(2).deviceId], LAMBDA d : d.type = "climate")
ClimateModeIds == FilterValues(nodes[2].values, CC_Thermostat_Mode, <<"mode">>)
ClimateOrdinals ==
  {ValueMeta(ClimateModeIds[1]).states[i] :
     i \in 1..Len(ValueMeta(ClimateModeIds[1]).states)}

\* The setpoint of the node for mode m: the value id that ends in '-<m>', or
\* <<>>.
SetpointOf(m) ==
  FindEndsWith(FilterValues(nodes[2].values, CC_Thermostat_Setpoint, <<"setpoint">>),
               <<"-">> \o Digits(m))

\* mode_map maps the token of each ordinal of M to the ordinal.
ModeMapOf(t) ==
  /\ \A m \in ClimateOrdinals :
       PairGet(t.mode_map, hassModes[m + 1], <<>>) = Digits(m)
  /\ \A i \in 1..Len(t.mode_map) :
       \E m \in ClimateOrdinals : t.mode_map[i].key = hassModes[m + 1]

\* setpoint_topic[m] is the setpoint of each mode m of M other than 0 that
\* has one, and default_setpoint is setpoint_topic[1], else the first entry.
SetpointsOf(t) ==
  /\ \A m \in ClimateOrdinals \ {0} :
       IF SetpointOf(m) # <<>>
       THEN PairGet(t.setpoint_topic, m, <<>>) = SetpointOf(m)
       ELSE ~PairHas(t.setpoint_topic, m)
  /\ \A i \in 1..Len(t.setpoint_topic) :
       t.setpoint_topic[i].key \in ClimateOrdinals \ {0}
  /\ t.default_setpoint =
       IF PairHas(t.setpoint_topic, 1) THEN PairGet(t.setpoint_topic, 1, <<>>)
       ELSE IF t.setpoint_topic # <<>> THEN t.setpoint_topic[1].value
       ELSE UndefStr

\* C20: the template discoverClimates synthesizes for a thermostat whose mode
\* value has the states M maps the token of every ordinal of M to that
\* ordinal, whether M is contiguous or not, names the setpoint of every mode
\* other than 0 that has one, and has setpoint_topic[1], else the first
\* entry, as its default setpoint.
C20_ClimateSynthesis ==
  \A i \in 1..Len(ClimateTemplates) :
    ClimateModeIds # <<>> =>
      ModeMapOf(ClimateTemplates[i]) /\ SetpointsOf(ClimateTemplates[i])

\* Discovery has run for the values of node n: the node is ready, discovery
\* is enabled and the last event was the node's status or its rediscovery.
DiscoveryRan(n) ==
  /\ nodes[n].ready /\ config.hassDiscovery
  /\ last.op \in {"nodeStatus", "rediscoverNode"} /\ last.n = n

\* The descriptor the Discovered Map holds for value v of node n is a binary
\* sensor whose on and off payloads are the strings on and off.
BinarySensorOf(n, v, on, off) ==
  /\ ValueIdOf(n, v) \in DOMAIN discovered
  /\ heap[discovered[ValueIdOf(n, v)]].type = "binary_sensor"
  /\ heap[discovered[ValueIdOf(n, v)]].discovery_payload.payload_on = on
  /\ heap[discovered[ValueIdOf(n, v)]].discovery_payload.payload_off = off

\* C21: once discovery has run for a ready node, each of its Binary Sensor
\* values that has a topic has a binary_sensor descriptor, with payload_on
\* false and payload_off true for the property 'lock' and payload_on true and
\* payload_off false for any other property.
C21_BinarySensorPolarity ==
  \A v \in {V_sensorLock, V_sensorMotion} :
    (/\ DiscoveryRan(1) /\ HasValue(nodes[1].values, v)
     /\ valueTopic(config, 1, v, nodes[1].values).ok)
    => IF ValueMeta(v).property = <<"lock">>
       THEN BinarySensorOf(1, v, FalseStr, TrueStr)
       ELSE BinarySensorOf(1, v, TrueStr, FalseStr)

(***************************************************************************)
(* The specification of the descriptor rewrite: a light whose values are   *)
(* discovered, and a client that sends descriptors with the api call       *)
(* discover, under each of the payload types.                              *)
(***************************************************************************)

\* The descriptors the client sends: templates of hass/configurations.js with
\* the values of the node filled in, with both of payload_on and payload_off,
\* with one of them, or with none.
TemplateDevices ==
  { [Cfg_switch EXCEPT !.values = <<V_switch>>],
    [Cfg_switch EXCEPT !.object_id = <<"on", "_", "only">>, !.values = <<V_switch>>,
                       !.discovery_payload.payload_off = Absent],
    [Cfg_sensor_generic EXCEPT !.values = <<V_temp>>],
    [Cfg_light_dimmer EXCEPT !.values = <<V_current, V_target>>] }

TemplateConfigs ==
  { [hassDiscovery |-> TRUE, type |-> 0, payloadType |-> t, values |-> <<>>] :
      t \in {0, 1, 2} }

TemplateInit ==
  /\ config \in TemplateConfigs
  /\ \E values \in { <<V_target, V_current, V_switchTarget, V_switch>>,
                     <<V_switchTarget, V_switch, V_temp>> } :
       nodes = [n \in NodeIds |->
                  IF n = 1
                  THEN [added |-> TRUE, ready |-> FALSE, loc |-> NodeInfo(n).loc, values |-> values,
                        value |-> [v \in {values[i] : i \in 1..Len(values)} |-> 0]]
                  ELSE NoNode]
  /\ hass = [n \in NodeIds |-> <<>>]
  /\ allDevices = [d \in {NodeInfo(n).deviceId : n \in NodeIds} |-> <<>>]
  /\ heap = <<>>
  /\ discovered = <<>>
  /\ topicValues = <<>>
  /\ topicLevels = <<>>
  /\ out = <<>>
  /\ subs = <<>>
  /\ calls = 0
  /\ OnlyGateway
  /\ last = [op |-> "init", n |-> 0, v |-> <<>>, device |-> EmptyDevice,
             created |-> {}]

TemplateNext ==
  \/ NodeReady(1)
  \/ NodeStatus(1)
  \/ \E device \in TemplateDevices \cup ClientDevices(1) :
       \E deleteDevice \in BOOLEAN : PublishDiscovery(1, device, deleteDevice)

TemplateSpec == TemplateInit /\ [][TemplateNext]_vars

\* The discovery payloads the last handler has published (removals carry
\* none).
DiscoveryPayloads ==
  SelectSeq(out, LAMBDA m : m.kind = "discovery" /\ ~m.removal)

\* The template a payload's occurrences of value_json.value are rewritten to.
TemplateOf(p) ==
  IF p.payload_on # Absent /\ p.payload_off # Absent
  THEN "value == 'true'" ELSE "value"

\* q is p with every occurrence of value_json.value in every string field
\* replaced by the template of p.
RewriteOf(p, q) ==
  \A f \in PayloadFields :
    /\ Len(q[f]) = Len(p[f])
    /\ \A i \in 1..Len(p[f]) :
         q[f][i] = IF p[f][i] = ValueJson /\ f \notin {"payload_on", "payload_off"}
                   THEN TemplateOf(p) ELSE p[f][i]

\* Whether some field of a payload holds the token.
HoldsToken(p, token) ==
  \E f \in PayloadFields : \E i \in 1..Len(p[f]) : p[f][i] = token

\* C22: under payloadType 2 the descriptor publishDiscovery emits has every
\* occurrence of value_json.value in every string field rewritten to
\* value == 'true' when the payload has both payload_on and payload_off and to
\* value otherwise, so that no payload published holds value_json.value;
\* under the other payload types the payload is emitted as it was given.
C22_JustValueRewrite ==
  /\ (last.op = "discover" /\ ~last.device.ignoreDiscovery) =>
       /\ DiscoveryPayloads # <<>>
       /\ IF config.payloadType = 2
          THEN RewriteOf(last.device.discovery_payload,
                         DiscoveryPayloads[Len(DiscoveryPayloads)].payload)
          ELSE DiscoveryPayloads[Len(DiscoveryPayloads)].payload
                 = last.device.discovery_payload
  /\ \A k \in 1..Len(DiscoveryPayloads) :
       IF config.payloadType = 2
       THEN ~HoldsToken(DiscoveryPayloads[k].payload, ValueJson)
       ELSE /\ ~HoldsToken(DiscoveryPayloads[k].payload, "value")
            /\ ~HoldsToken(DiscoveryPayloads[k].payload, "value == 'true'")

\* Under payloadType 2 a client has sent a switch descriptor with both
\* payloads and the gateway has published it with value == 'true', and a
\* descriptor without payloads has been rewritten with value.
C22_Witness ==
  /\ config.payloadType = 2
  /\ last.op = "discover" /\ HoldsToken(last.device.discovery_payload, ValueJson)
  /\ TemplateOf(last.device.discovery_payload) = "value == 'true'"
  /\ HoldsToken(DiscoveryPayloads[Len(DiscoveryPayloads)].payload, "value == 'true'")
  /\ \E o \in DOMAIN heap :
       /\ heap[o].discovery_payload.payload_on = Absent
       /\ HoldsToken(heap[o].discovery_payload, "value")

(***************************************************************************)
(* The specification of the retain option: a plug with a stateless scene   *)
(* value and a binary switch, whose values are reported before and after   *)
(* the node is ready, under each override of the scene value.              *)
(***************************************************************************)

RetainValues == <<V_scene, V_switchTarget, V_switch>>

\* The values tables: none, or an entry for the scene value whose retain is
\* not set, true or false.
RetainOverrides ==
  { <<>> } \cup
  { << [device |-> "dev-plug", valueId |-> V_scene, topic |-> <<>>,
        postOperation |-> <<>>, retain |-> r,
      device_class |-> <<>>] >> :
      r \in {"undefined", "true", "false"} }

RetainConfigs ==
  { [hassDiscovery |-> FALSE, type |-> 0, payloadType |-> 0, values |-> o] :
      o \in RetainOverrides }

RetainInit ==
  /\ config \in RetainConfigs
  /\ nodes = [n \in NodeIds |->
                IF n = 11
                THEN [added |-> TRUE, ready |-> FALSE, loc |-> NodeInfo(n).loc,
                      values |-> RetainValues,
                      value |-> [v \in {RetainValues[i] : i \in 1..Len(RetainValues)} |-> 0]]
                ELSE NoNode]
  /\ hass = [n \in NodeIds |-> <<>>]
  /\ allDevices = [d \in {NodeInfo(n).deviceId : n \in NodeIds} |-> <<>>]
  /\ heap = <<>>
  /\ discovered = <<>>
  /\ topicValues = <<>>
  /\ topicLevels = <<>>
  /\ out = <<>>
  /\ subs = <<>>
  /\ calls = 0
  /\ OnlyGateway
  /\ last = [op |-> "init", n |-> 0, v |-> <<>>, device |-> EmptyDevice,
             created |-> {}]

RetainNext ==
  \/ NodeReady(11)
  \/ NodeStatus(11)
  \/ \E v \in {V_scene, V_switch} : \E val \in {0, 1, 2} :
       ValueChanged(11, v, val, TRUE)

RetainSpec == RetainInit /\ [][RetainNext]_vars

\* The last event was the report of a stateless value.
StatelessReported ==
  last.op = "valueChanged" /\ ValueMeta(last.v).stateless

\* C23: every state publish the gateway makes for a stateless value carries
\* retain false, whatever the override of the value, and a stateless value
\* reported while its node is not ready is not published.
C23_StatelessNeverRetained ==
  StatelessReported =>
    \A k \in 1..Len(out) :
      out[k].kind = "state" =>
        out[k].retain = "false" /\ nodes[last.n].ready

\* C24: every topic of the Topic-Value Map has a depth in topicLevels, that
\* is, a depth whose wildcard pattern has been subscribed, so that a write
\* request on a tracked topic can be received.
C24_TrackedTopicsSubscribed ==
  \A t \in DOMAIN topicValues :
    /\ Includes(topicLevels, TopicLevelCount(t))
    /\ Includes(subs, WildcardPattern(TopicLevelCount(t)))

(***************************************************************************)
(* The specification of the discovery of a sensor node, whose values the   *)
(* values table may give a device class.                                   *)
(***************************************************************************)

\* The values of node 11, a multisensor: three temperatures, two, or one
\* beside a binary switch.
SensorValues ==
  { <<V_temp, V_dew, V_soil>>, <<V_temp, V_dew>>,
    <<V_temp, V_switchTarget, V_switch>> }

\* The entry of the values table that gives a value the device class
\* temperature.
TemperatureClass(v) ==
  [device |-> "dev-plug", valueId |-> v, topic |-> <<>>, postOperation |-> <<>>,
   retain |-> "undefined", device_class |-> <<"temperature">>]

SensorOverrides ==
  { <<>>, <<TemperatureClass(V_temp), TemperatureClass(V_dew)>>,
    <<TemperatureClass(V_temp), TemperatureClass(V_dew), TemperatureClass(V_soil)>> }

SensorConfigs ==
  { [hassDiscovery |-> TRUE, type |-> t, payloadType |-> 0, values |-> o] :
      t \in {0, 1}, o \in SensorOverrides }

SensorInit ==
  /\ config \in SensorConfigs
  /\ \E values \in SensorValues :
       nodes = [n \in NodeIds |->
                  IF n = 11
                  THEN [added |-> TRUE, ready |-> FALSE, loc |-> NodeInfo(n).loc,
                        values |-> values,
                        value |-> [v \in {values[i] : i \in 1..Len(values)} |-> 0]]
                  ELSE NoNode]
  /\ hass = [n \in NodeIds |-> <<>>]
  /\ allDevices = [d \in {NodeInfo(n).deviceId : n \in NodeIds} |-> <<>>]
  /\ heap = <<>>
  /\ discovered = <<>>
  /\ topicValues = <<>>
  /\ topicLevels = <<>>
  /\ out = <<>>
  /\ subs = <<>>
  /\ calls = 0
  /\ OnlyGateway
  /\ last = [op |-> "init", n |-> 0, v |-> <<>>, device |-> EmptyDevice,
             created |-> {}]

SensorNext ==
  \/ NodeReady(11)
  \/ NodeStatus(11)
  \/ RediscoverNode(11)
  \/ \E v \in {V_temp, V_dew, V_soil} : \E val \in {1, 2} : ValueChanged(11, v, val, TRUE)

SensorSpec == SensorInit /\ [][SensorNext]_vars

\* C25: per-value discovery never overwrites a descriptor: the descriptor the
\* Discovered Map holds for a value of a node is one of the descriptors of
\* the node's descriptor map, however many values of the node classify to the
\* same type and object id.
C25_DiscoveredDescriptorsKept ==
  \A n \in NodeIds : \A i \in 1..Len(nodes[n].values) :
    ValueIdOf(n, nodes[n].values[i]) \in DOMAIN discovered =>
      \E k \in 1..Len(hass[n]) :
        hass[n][k].oid = discovered[ValueIdOf(n, nodes[n].values[i])]

(***************************************************************************)
(* The specification of the climate synthesis for thermostats whose modes  *)
(* translate to the same name, or have no setpoint of their own.           *)
(***************************************************************************)

\* The values of node 2, a thermostat: a mode value with the energy saving
\* modes, with seven modes that have a name, with off and cool and the
\* setpoint of heat only, with the modes 0 to 3, or none.
ModeValues ==
  { <<V_mode3, V_setpoint1, V_setpoint2>>,
    <<V_temp, V_mode4, V_setpoint1, V_setpoint2>>,
    <<V_mode1, V_setpoint1>>,
    <<V_temp, V_mode, V_setpoint1>>,
    <<V_temp, V_setpoint2>> }

ModeInit ==
  /\ config \in ClimateConfigs
  /\ \E values \in ModeValues :
       nodes = [n \in NodeIds |->
                  IF n = 2
                  THEN [added |-> TRUE, ready |-> FALSE, loc |-> NodeInfo(n).loc,
                        values |-> values,
                        value |-> [v \in {values[i] : i \in 1..Len(values)} |-> 0]]
                  ELSE NoNode]
  /\ hass = [n \in NodeIds |-> <<>>]
  /\ allDevices = [d \in {NodeInfo(n).deviceId : n \in NodeIds} |-> <<>>]
  /\ heap = <<>>
  /\ discovered = <<>>
  /\ topicValues = <<>>
  /\ topicLevels = <<>>
  /\ out = <<>>
  /\ subs = <<>>
  /\ calls = 0
  /\ OnlyGateway
  /\ last = [op |-> "init", n |-> 0, v |-> <<>>, device |-> EmptyDevice,
             created |-> {}]

ModeNext ==
  \/ NodeReady(2)
  \/ NodeStatus(2)
  \/ RediscoverNode(2)
  \/ \E v \in {V_mode, V_mode1, V_mode3, V_mode4, V_setpoint1} : \E val \in {1, 2} :
       ValueChanged(2, v, val, TRUE)

ModeSpec == ModeInit /\ [][ModeNext]_vars

\* The ordinals of M that have a name in hassModes.
TranslatedOrdinals == {m \in ClimateOrdinals : hassModes[m + 1] # ""}

\* No name is twice in the modes list of template t.
DistinctModes(t) ==
  \A i, j \in 1..Len(t.modes) : t.modes[i] = t.modes[j] => i = j

\* Every ordinal of M that has a name is the ordinal of exactly one name of
\* the mode map of template t.
EachModeReachable(t) ==
  \A m \in TranslatedOrdinals :
    Cardinality({i \in 1..Len(t.mode_map) : t.mode_map[i].value = Digits(m)}) = 1

\* C26: when several modes of the thermostat translate to the same name, each
\* later one takes the next allowed name not in use: the modes list of the
\* template holds no name twice and each mode that has a name is reachable
\* from exactly one name of mode_map, whatever modes the device supports.
C26_ModeNamesDistinct ==
  \A i \in 1..Len(ClimateTemplates) :
    ClimateModeIds # <<>> =>
      DistinctModes(ClimateTemplates[i]) /\ EachModeReachable(ClimateTemplates[i])

\* The setpoint values of the thermostat, in the order discoverClimates
\* finds them.
ClimateSetpoints ==
  FilterValues(nodes[2].values, CC_Thermostat_Setpoint, <<"setpoint">>)

\* The default setpoint of template t is the setpoint of one of its modes when
\* a mode has one, and the first setpoint of the node otherwise.
DefaultSetpointOf(t) ==
  IF t.setpoint_topic # <<>>
  THEN \E i \in 1..Len(t.setpoint_topic) :
         t.default_setpoint = t.setpoint_topic[i].value
  ELSE t.default_setpoint = ClimateSetpoints[1]

\* C27: the default setpoint of every climate template discoverClimates
\* synthesizes is the id of a setpoint value of the node: the setpoint of a
\* mode other than off when a mode has one, else the first setpoint found,
\* also when the node has a mode value none of whose modes has a setpoint.
C27_DefaultSetpointExists ==
  \A i \in 1..Len(ClimateTemplates) :
    /\ Includes(ClimateSetpoints, ClimateTemplates[i].default_setpoint)
    /\ DefaultSetpointOf(ClimateTemplates[i])

\* The fields of a discovery payload whose name contains 'topic'.
TopicFields ==
  { "state_topic", "command_topic", "brightness_state_topic",
    "brightness_command_topic", "rgb_state_topic", "rgb_command_topic",
    "mode_state_topic", "mode_command_topic", "current_temperature_topic",
    "temperature_state_topic", "temperature_command_topic",
    "json_attributes_topic" }

\* Payload p holds a boolean in one of its topic fields.
HoldsSentinel(p) == \E f \in TopicFields : p[f] \in {TrueStr, FalseStr}

\* C28: no topic field of a discovery payload the gateway publishes for a
\* descriptor holds the boolean true or false: each is a topic or absent,
\* also for a color light without a brightness value and for a thermostat
\* without a mode value.
C28_NoBooleanSentinel ==
  \A i \in 1..Len(DiscoveryPayloads) : ~HoldsSentinel(DiscoveryPayloads[i].payload)

(***************************************************************************)
(* The specification of the discovery of color lights: a color value on    *)
(* endpoint 0 or 1 beside multilevel and binary switches of the endpoints. *)
(***************************************************************************)

\* The values of node 1, a color light.
ColorValues ==
  { <<V_target, V_current, V_switchTarget, V_switch, V_targetColor, V_color>>,
    <<V_level1Target, V_level1, V_switchTarget, V_switch, V_targetColor, V_color>>,
    <<V_switchTarget, V_switch, V_targetColor, V_color>>,
    <<V_targetColor, V_color>>,
    <<V_target, V_current, V_switch1Target, V_switch1, V_targetColor1, V_color1>>,
    <<V_level1Target, V_level1, V_target, V_current, V_targetColor1, V_color1>>,
    <<V_target, V_current, V_targetColor1, V_color1>> }

ColorConfigs ==
  { [hassDiscovery |-> TRUE, type |-> t, payloadType |-> 0, values |-> <<>>] :
      t \in {0, 1} }

ColorInit ==
  /\ config \in ColorConfigs
  /\ \E values \in ColorValues :
       nodes = [n \in NodeIds |->
                  IF n = 1
                  THEN [added |-> TRUE, ready |-> FALSE, loc |-> NodeInfo(n).loc,
                        values |-> values,
                        value |-> [v \in {values[i] : i \in 1..Len(values)} |-> 0]]
                  ELSE NoNode]
  /\ hass = [n \in NodeIds |-> <<>>]
  /\ allDevices = [d \in {NodeInfo(n).deviceId : n \in NodeIds} |-> <<>>]
  /\ heap = <<>>
  /\ discovered = <<>>
  /\ topicValues = <<>>
  /\ topicLevels = <<>>
  /\ out = <<>>
  /\ subs = <<>>
  /\ calls = 0
  /\ OnlyGateway
  /\ last = [op |-> "init", n |-> 0, v |-> <<>>, device |-> EmptyDevice,
             created |-> {}]

ColorNext ==
  \/ NodeReady(1)
  \/ NodeStatus(1)
  \/ RediscoverNode(1)
  \/ \E v \in {V_color, V_color1, V_current} : ValueChanged(1, v, 1, TRUE)

ColorSpec == ColorInit /\ [][ColorNext]_vars

\* The current value of command class cc (as digits) on endpoint e.
CurrentValueOn(cc, e) == cc \o <<"-">> \o Digits(e) \o <<"-", "currentValue">>

\* The first value of a list of value ids the node has, or <<>>.
RECURSIVE FirstPresent(_, _)
FirstPresent(present, ids) ==
  IF ids = <<>> THEN <<>>
  ELSE IF HasValue(present, Head(ids)) THEN Head(ids)
  ELSE FirstPresent(present, Tail(ids))

\* The descriptor the Discovered Map holds for color value c of node 1 is a
\* light wired to the companion comp: comp and its target are the first of
\* the descriptor's values and the state topic is the topic of comp; without
\* a companion the descriptor lists the color value and its target only.
WiredTo(c, comp) ==
  LET d == heap[discovered[ValueIdOf(1, c)]]
  IN /\ d.type = "light"
     /\ IF comp = <<>>
        THEN d.values = <<c, ValueMeta(c).targetValue>>
        ELSE /\ d.values = <<comp, ValueMeta(comp).targetValue,
                             c, ValueMeta(c).targetValue>>
             /\ d.discovery_payload.state_topic = ValueGetTopic(1, comp)

\* The color values of node 1 that are discovered.
DiscoveredColors ==
  {c \in {V_color, V_color1} :
     HasValue(nodes[1].values, c) /\ ValueIdOf(1, c) \in DOMAIN discovered}

\* C29: the companion wired into the light descriptor of a currentColor
\* value on endpoint e is the first existing value among the multilevel
\* current value of endpoint e, the multilevel current value of endpoint 1
\* when e is 0, and the binary current value of endpoint e; the companion and
\* its target value are among the descriptor's values.
C29_CompanionProbing ==
  \A c \in DiscoveredColors :
    WiredTo(c, FirstPresent(nodes[1].values,
                 <<CurrentValueOn(<<"3", "8">>, ValueMeta(c).endpoint)>>
                 \o (IF ValueMeta(c).endpoint = 0
                     THEN <<CurrentValueOn(<<"3", "8">>, 1)>> ELSE <<>>)
                 \o <<CurrentValueOn(<<"3", "7">>, ValueMeta(c).endpoint)>>))

\* The statement with the multilevel current value of endpoint 0 as the
\* second value probed.
C29_CompanionProbingRoot ==
  \A c \in DiscoveredColors :
    WiredTo(c, FirstPresent(nodes[1].values,
                 <<CurrentValueOn(<<"3", "8">>, ValueMeta(c).endpoint),
                   CurrentValueOn(<<"3", "8">>, 0),
                   CurrentValueOn(<<"3", "7">>, ValueMeta(c).endpoint)>>))

\* The color value of endpoint 0 is discovered on a node without a
\* multilevel switch on endpoint 0 but with one on endpoint 1 and a binary
\* switch on endpoint 0, and the light is wired to the one of endpoint 1.
C29_Witness ==
  /\ V_color \in DiscoveredColors
  /\ ~HasValue(nodes[1].values, V_current)
  /\ HasValue(nodes[1].values, V_level1) /\ HasValue(nodes[1].values, V_switch)
  /\ heap[discovered[ValueIdOf(1, V_color)]].values[1] = V_level1

(***************************************************************************)
(* The specification of two thermostats of one device model.               *)
(***************************************************************************)

\* The thermostats: the nodes 2 and 8 have the same device id.
ThermoNodeIds == {2, 8}

\* The values of a thermostat: with a mode value or without, with one
\* setpoint or both, or without a setpoint.
ThermoValues ==
  { <<V_temp, V_mode, V_setpoint1, V_setpoint2>>,
    <<V_temp, V_setpoint1>>,
    <<V_temp, V_mode>> }

ThermoInit ==
  /\ config \in {c \in ClimateConfigs : c.type = 0}
  /\ \E values \in [ThermoNodeIds -> ThermoValues] :
       nodes = [n \in NodeIds \cup ThermoNodeIds |->
                  IF n \in ThermoNodeIds
                  THEN [added |-> TRUE, ready |-> FALSE, loc |-> NodeInfo(n).loc,
                        values |-> values[n],
                        value |-> [v \in {values[n][i] : i \in 1..Len(values[n])} |-> 0]]
                  ELSE NoNode]
  /\ hass = [n \in NodeIds \cup ThermoNodeIds |-> <<>>]
  /\ allDevices = [d \in {NodeInfo(n).deviceId : n \in NodeIds \cup ThermoNodeIds} |-> <<>>]
  /\ heap = <<>>
  /\ discovered = <<>>
  /\ topicValues = <<>>
  /\ topicLevels = <<>>
  /\ out = <<>>
  /\ subs = <<>>
  /\ calls = 0
  /\ OnlyGateway
  /\ last = [op |-> "init", n |-> 0, v |-> <<>>, device |-> EmptyDevice,
             created |-> {}]

ThermoNext ==
  \/ \E n \in ThermoNodeIds : NodeReady(n)
  \/ \E n \in ThermoNodeIds : NodeStatus(n)
  \/ \E n \in ThermoNodeIds : ValueChanged(n, V_temp, 1, TRUE)

ThermoSpec == ThermoInit /\ [][ThermoNext]_vars

\* The climate templates the registry holds for device id d.
ClimatesOf(devices, d) == SelectSeq(devices[d], LAMBDA t : t.type = "climate")

\* C30: whatever nodeStatus events arrive for the thermostats, of one device
\* model or of several, once or repeatedly, the registry holds at most one
\* climate template per device model, and a step that starts with a climate
\* template registered for a model leaves the templates of the model as
\* they are.
C30_OneClimatePerModel ==
  [][\A d \in DOMAIN allDevices :
       /\ Len(ClimatesOf(allDevices', d)) <= 1
       /\ ClimatesOf(allDevices, d) # <<>> => allDevices'[d] = allDevices[d]]_vars

\* The status of node 8 is reported after node 2, of the same device model,
\* has been discovered with the climate template of the model, and node 8 is
\* discovered with that template too.
C30_Witness ==
  /\ last.op = "nodeStatus" /\ last.n = 8
  /\ nodes[2].ready /\ nodes[8].ready
  /\ MapHas(hass[2], HassKey("climate", <<"climate">>))
  /\ MapHas(hass[8], HassKey("climate", <<"climate">>))
  /\ Len(ClimatesOf(allDevices, NodeInfo(8).deviceId)) = 1

(***************************************************************************)
(* The specification of the discovery pass of onNodeStatus for nodes that  *)
(* may hold a stored descriptor: a color light and a thermostat.           *)
(***************************************************************************)

\* A descriptor of the node's store (persistent) that lists value v.
StoredSensor(n, v) ==
  [Cfg_sensor_generic EXCEPT
     !.object_id = <<"stored">>, !.values = <<v>>, !.persistent = TRUE,
     !.discoveryTopic = getDiscoveryTopic("sensor", <<"stored">>, NODE_PREFIX \o Digits(n)),
     !.discovery_payload.state_topic = <<"zwave", "/", "stored">>]

StoredKey == HassKey("sensor", <<"stored">>)

\* The values of node 1, a color light, as the driver lists them.
PriorityValues ==
  { <<V_target, V_current, V_switchTarget, V_switch, V_targetColor, V_color>>,
    <<V_switchTarget, V_switch, V_temp, V_targetColor, V_color>>,
    <<V_targetColor, V_color, V_target, V_current, V_temp>> }

\* The value a stored descriptor of node n claims.
StoredValue(n) == IF n = 1 THEN V_current ELSE V_temp

PriorityInit ==
  /\ config \in ClimateConfigs
  /\ \E values \in PriorityValues :
       nodes = [n \in NodeIds |->
                  IF n = 1
                  THEN [added |-> TRUE, ready |-> FALSE, loc |-> NodeInfo(n).loc,
                        values |-> values,
                        value |-> [v \in {values[i] : i \in 1..Len(values)} |-> 0]]
                  ELSE IF n = 2 THEN NewNode(2) ELSE NoNode]
  /\ \E stored \in SUBSET {1, 2} :
       /\ hass = [n \in NodeIds |->
                    IF n \in stored
                    THEN <<[key |-> StoredKey, oid |-> <<n, StoredKey, 0>>]>> ELSE <<>>]
       /\ heap = [o \in {<<n, StoredKey, 0>> : n \in stored} |->
                    StoredSensor(o[1], StoredValue(o[1]))]
  /\ allDevices = [d \in {NodeInfo(n).deviceId : n \in NodeIds} |-> <<>>]
  /\ discovered = <<>>
  /\ topicValues = <<>>
  /\ topicLevels = <<>>
  /\ out = <<>>
  /\ subs = <<>>
  /\ calls = 0
  /\ OnlyGateway
  /\ last = [op |-> "init", n |-> 0, v |-> <<>>, device |-> EmptyDevice,
             created |-> {}]

PriorityNext ==
  \/ \E n \in {1, 2} : NodeReady(n)
  \/ \E n \in {1, 2} : NodeStatus(n)
  \/ \E n \in {1, 2} : RediscoverNode(n)
  \/ \E v \in {V_current, V_switch} : ValueChanged(1, v, 1, TRUE)

PrioritySpec == PriorityInit /\ [][PriorityNext]_vars

\* The stage of the discovery pass that publishes descriptor d: 0 the stored
\* descriptors, 1 the device templates, 2 the Color Switch values and 3 the
\* values of the other classes.
StageOf(d) ==
  IF d.persistent THEN 0
  ELSE IF d.type = "climate" THEN 1
  ELSE IF \E i \in 1..Len(d.values) :
            ValueMeta(d.values[i]).commandClass = CC_Color_Switch
  THEN 2 ELSE 3

\* The discovery messages of a handler's output, in order.
DiscoveryOf(msgs) == SelectSeq(msgs, LAMBDA m : m.kind = "discovery")

\* Descriptor d is the standalone descriptor of value v: it lists v, and
\* the target of v if it has one, and nothing else.
StandaloneOf(d, v) ==
  d.values \in {<<v>>, <<v, ValueMeta(v).targetValue>>}

\* A nodeStatus step that runs the discovery pass.
DiscoveryPass ==
  /\ last'.op = "nodeStatus" /\ nodes[last'.n].ready /\ config.hassDiscovery

\* C31: the discovery pass of onNodeStatus publishes the stored descriptors
\* first, then the device templates, then the descriptors of the Color
\* Switch values and then those of the other values; and the pass builds no
\* standalone descriptor for a value that another descriptor it publishes
\* lists (a stored one, a template or a color light with its companion).
C31_DiscoveryPriority ==
  [][DiscoveryPass =>
       /\ \A i, j \in 1..Len(DiscoveryOf(out')) :
            i < j => StageOf(heap'[DiscoveryOf(out')[i].oid])
                       <= StageOf(heap'[DiscoveryOf(out')[j].oid])
       /\ \A o \in last'.created : \A v \in ValuesOf(o)' :
            StandaloneOf(heap'[o], v) =>
              \A i \in 1..Len(DiscoveryOf(out')) :
                DiscoveryOf(out')[i].oid # o =>
                  ~Includes(heap'[DiscoveryOf(out')[i].oid].values, v)]_vars

\* A discovery pass of the color light has published its stored descriptor,
\* the color light wired to the binary switch, and a standalone descriptor,
\* and the binary switch has no descriptor of its own.
C31_Witness ==
  /\ last.op = "nodeStatus" /\ last.n = 1
  /\ \E i, j, k \in 1..Len(DiscoveryOf(out)) :
       /\ i < j /\ j < k
       /\ StageOf(heap[DiscoveryOf(out)[i].oid]) = 0
       /\ StageOf(heap[DiscoveryOf(out)[j].oid]) = 2
       /\ Includes(heap[DiscoveryOf(out)[j].oid].values, V_switch)
       /\ StageOf(heap[DiscoveryOf(out)[k].oid]) = 3
  /\ \A o \in NodeOids(1) : ~StandaloneOf(heap[o], V_switch)

(***************************************************************************)
(* The specification of the write path: a lamp whose values are reported   *)
(* and whose location changes, and write requests on the topic of any of   *)
(* its values, reported or not.                                            *)
(***************************************************************************)

\* The topics of the values of the added nodes, under every location, and
\* the topics that are keys of this.topicValues.
WriteTopics ==
  (DOMAIN topicValues
   \cup { valueTopicAt(config, n, nodes[n].values[i], loc) :
            n \in {m \in TopicNodeIds : nodes[m].added},
            i \in 1..Len(LampValues), loc \in Locations })
  \ {NullStr}

WriteNext ==
  \/ \E n \in TopicNodeIds : \E i \in 1..Len(nodes[n].values) :
       ValueChanged(n, nodes[n].values[i], 1, TRUE)
  \/ \E n \in TopicNodeIds : \E loc \in Locations : UpdateNodeTopics(n, loc)
  \/ \E topic \in WriteTopics : \E payload \in {JsInt(3), JsNull} :
       WriteRequest(topic, payload)

WriteSpec == TopicInit /\ [][WriteNext]_vars

\* The device write commands of a handler's output.
WritesOf(msgs) == SelectSeq(msgs, LAMBDA m : m.kind = "write")

\* C32: a write request causes exactly one device write command when its
\* topic is a key of the Topic-Value Map and none otherwise; and every key of
\* the map is the topic of a writeable value that a valueChanged event has
\* reported, so that a write request on the topic of a value not yet
\* reported causes no device command.
C32_WritePathSafety ==
  [][/\ last'.op = "writeRequest" =>
          Len(WritesOf(out')) = (IF last'.n # 0 THEN 1 ELSE 0)
     /\ \A t \in DOMAIN topicValues' :
          /\ ValueMeta(topicValues'[t].v).writeable
          /\ nodes'[topicValues'[t].n].value[topicValues'[t].v] = 1
     /\ \A t \in WriteTopics \ DOMAIN topicValues :
          onWriteRequest(Gw, t, JsInt(3)).out = <<>>]_vars

\* A write request has been dropped while the writeable value of the lamp
\* was not yet reported and its read-only values were.
C32_Witness ==
  /\ last.op = "writeRequest" /\ last.n = 0 /\ out = <<>>
  /\ topicValues = <<>>
  /\ \E n \in TopicNodeIds :
       /\ nodes[n].added /\ nodes[n].value[V_target] = 0
       /\ nodes[n].value[V_current] = 1 /\ nodes[n].value[V_temp] = 1

\* C33: while discovery is disabled in the gateway configuration, no
\* nodeStatus, valueChanged, broker status or rediscoverNode operation
\* registers a descriptor in a node's descriptor map or in the Discovered
\* Map, and none publishes a discovery message.
C33_NoDiscoveryWhileDisabled ==
  [][(~config.hassDiscovery
      /\ last'.op \in {"nodeStatus", "valueChanged", "online", "offline",
                       "rediscoverNode"})
     => /\ \A n \in NodeIds : \A i \in 1..Len(hass'[n]) :
             MapHas(hass[n], hass'[n][i].key)
        /\ DOMAIN discovered' \subseteq DOMAIN discovered
        /\ DiscoveryOf(out') = <<>>]_vars

(***************************************************************************)
(* The specification of the broadcast path: the nodes of the network       *)
(* report their values, and broadcast requests arrive whose topic parts    *)
(* are whole trailing segments of tracked topics, or end like them.        *)
(***************************************************************************)

\* parts.join('/') of the broadcast requests: the class 8 where a tracked
\* topic has the class 38, the endpoint and property of every target value,
\* the topic of a node 1 where node 11 is tracked, and the class 38.
BroadcastTopics ==
  { <<"8", "/", "0", "/", "targetValue">>,
    <<"0", "/", "targetValue">>,
    <<"1", "/", "3", "7", "/", "0", "/", "targetValue">>,
    <<"3", "8", "/", "0", "/", "targetValue">> }

BroadcastNext ==
  \/ \E n \in NodeIds : NodeReady(n)
  \/ \E n \in NodeIds : \E i \in 1..Len(nodes[n].values) :
       ValueChanged(n, nodes[n].values[i], 1, TRUE)
  \/ \E topic \in BroadcastTopics : \E payload \in {JsInt(1), JsBool(TRUE)} :
       \E first \in (IF BroadcastTargets(Gw, topic) = {} THEN {<<>>}
                     ELSE BroadcastTargets(Gw, topic)) :
         BroadRequest(topic, payload, first)

BroadcastSpec == Init /\ [][BroadcastNext]_vars

\* The trailing segments of topic t are the segments of p.
TrailingSegments(t, p) ==
  /\ EndsWith(t, p)
  /\ Len(p) = Len(t) \/ t[Len(t) - Len(p)] = "/"

\* C34: a broadcast request with the topic parts P issues one device write
\* to each tracked value whose topic's trailing segments equal P, and to no
\* other value, and all the writes carry the same payload.
C34_BroadcastWholeSegments ==
  [][last'.op = "broadcastRequest" =>
       /\ \A t \in DOMAIN topicValues :
            Len(SelectSeq(WritesOf(out'), LAMBDA m : m.topic = t))
              = (IF TrailingSegments(t, last'.v) THEN 1 ELSE 0)
       /\ \A i, j \in 1..Len(WritesOf(out')) :
            WritesOf(out')[i].payload = WritesOf(out')[j].payload]_vars

(***************************************************************************)
(* The specification of removeNodeRetained: a thermostat in the ValueID    *)
(* and the manual topic modes, with or without an override for a setpoint, *)
(* whose retained messages are removed.                                    *)
(***************************************************************************)

\* for (const t of topics) this.mqtt.publish(t, '', { retain: true }), from
\* the k-th value of the node on; MqttClient.publish puts the prefix and a
\* '/' before t, which turns the null of a value without topic into "null".
RECURSIVE publishEmptyRetained(_, _, _)
publishEmptyRetained(g, n, k) ==
  IF k > Len(nodes[n].values) THEN g
  ELSE publishEmptyRetained(
         Emit(g, WithRetain(Msg("state", valueTopicString(config, n, nodes[n].values[k]),
                                NoOid, FALSE, JsStr(<<>>)), "true")),
         n, k + 1)

\* Gateway.prototype.removeNodeRetained(nodeId).
removeNodeRetained(g, n) ==
  IF ~nodes[n].added THEN g ELSE publishEmptyRetained(g, n, 1)

\* The api call removeNodeRetained.
RemoveNodeRetained(n) ==
  /\ Commit(removeNodeRetained(Gw, n), "removeNodeRetained", n, <<>>, EmptyDevice)
  /\ UNCHANGED <<config, nodes, calls>>

\* The values tables: none, or a topic for the first setpoint.
RetainedOverrides ==
  { <<>>,
    << [device |-> "dev-thermo", valueId |-> V_setpoint1, topic |-> <<"heat">>,
        postOperation |-> <<>>, retain |-> "undefined", device_class |-> <<>>] >> }

RetainedConfigs ==
  { [hassDiscovery |-> h, type |-> t, payloadType |-> 0, values |-> o] :
      h \in BOOLEAN, t \in {0, 2}, o \in RetainedOverrides }

RetainedInit ==
  /\ config \in RetainedConfigs
  /\ nodes = [n \in NodeIds |-> IF n = 2 THEN NewNode(2) ELSE NoNode]
  /\ hass = [n \in NodeIds |-> <<>>]
  /\ allDevices = [d \in {NodeInfo(n).deviceId : n \in NodeIds} |-> <<>>]
  /\ heap = <<>>
  /\ discovered = <<>>
  /\ topicValues = <<>>
  /\ topicLevels = <<>>
  /\ out = <<>>
  /\ subs = <<>>
  /\ calls = 0
  /\ OnlyGateway
  /\ last = [op |-> "init", n |-> 0, v |-> <<>>, device |-> EmptyDevice,
             created |-> {}]

RetainedNext ==
  \/ NodeReady(2)
  \/ NodeStatus(2)
  \/ \E i \in 1..Len(nodes[2].values) : \E val \in {1, 2} :
       ValueChanged(2, nodes[2].values[i], val, TRUE)
  \/ RemoveNodeRetained(2)

RetainedSpec == RetainedInit /\ [][RetainedNext]_vars

\* A topic built from the null of valueTopic.
FromNullTopic(t) ==
  t \in {NullStr, getTopic(NullStr, FALSE), getTopic(NullStr, TRUE)}

\* C35: removeNodeRetained publishes an empty retained payload to the topic
\* of each value of the node that has a topic and nothing for a value
\* without one, and no discovery payload of a template or a climate holds a
\* topic built from the null of valueTopic.
C35_NullTopicSkipped ==
  [][/\ last'.op = "removeNodeRetained" =>
          /\ \A i \in 1..Len(out') : ~FromNullTopic(out'[i].topic)
          /\ \A k \in 1..Len(nodes[2].values) :
               valueTopicString(config, 2, nodes[2].values[k]) # NullStr =>
                 \E i \in 1..Len(out') :
                   /\ out'[i].topic = valueTopicString(config, 2, nodes[2].values[k])
                   /\ out'[i].payload = JsStr(<<>>) /\ out'[i].retain = "true"
     /\ \A o \in DOMAIN heap' : \A f \in TopicFields :
          ~FromNullTopic(heap'[o].discovery_payload[f])]_vars

(***************************************************************************)
(* The web application (app.js): the settings update requests, which       *)
(* restart the gateway. A request runs up to its first await when it       *)
(* arrives and is resumed when the awaited promise settles, so the         *)
(* requests interleave at their awaits.                                    *)
(***************************************************************************)

\* The gateway variables are left out of the specifications that follow.
NoGateway ==
  /\ config = <<>> /\ nodes = <<>> /\ hass = <<>> /\ allDevices = <<>>
  /\ heap = <<>> /\ discovered = <<>> /\ topicValues = <<>> /\ topicLevels = <<>>
  /\ out = <<>> /\ subs = <<>> /\ calls = 0 /\ last = <<>>

\* The settings update requests; request r posts the settings r.
Requests == {1, 2, 3}

\* A request that has not arrived, is awaiting jsonStore.put, is awaiting
\* gw.close(), or has been answered.
RequestStates == {"idle", "put", "close", "done"}

\* res.json({ success: false, message }) from the catch block.
respondError(a, r) ==
  [a EXCEPT !.pc[r] = "done", !.response[r] = "error"]

\* The handler, had it not tested the restarting flag.
postSettingsUnguarded(a, r) ==
  [a EXCEPT !.restarting = TRUE, !.pc[r] = "put"]

\* app.post('/api/settings') up to `await jsonStore.put`: the request is
\* refused while restarting is set; otherwise it sets the flag and starts
\* the write of the store.
postSettings(a, r) ==
  IF a.restarting THEN respondError(a, r)
  ELSE [a EXCEPT !.restarting = TRUE, !.pc[r] = "put"]

\* startGateway(): a new gateway is built from the stored settings and
\* started, and the flag is reset.
startGateway(a) ==
  [a EXCEPT !.gw = [settings |-> a.settings, closed |-> FALSE],
            !.starts = @ + 1, !.restarting = FALSE]

\* The handler from the settling of jsonStore.put to `await gw.close()`: the
\* store holds the posted settings, or put has thrown.
putSettled(a, r, ok) ==
  IF ok THEN [a EXCEPT !.settings = r, !.writes = @ + 1, !.pc[r] = "close"]
  ELSE respondError(a, r)

\* The handler from the settling of gw.close() on: startGateway and the
\* answer, or close has thrown (Gateway.prototype.close marks the gateway
\* closed before it awaits its clients).
closeSettled(a, r, ok) ==
  IF ok
  THEN [startGateway([a EXCEPT !.gw.closed = TRUE, !.closes = @ + 1])
          EXCEPT !.pc[r] = "done", !.response[r] = "success"]
  ELSE respondError([a EXCEPT !.gw.closed = TRUE], r)

\* The application after start(server): the gateway runs with the stored
\* settings and no request has arrived.
AppInit ==
  /\ NoGateway
  /\ app = [restarting |-> FALSE,
            pc |-> [r \in Requests |-> "idle"],
            response |-> [r \in Requests |-> "none"],
            settings |-> 0,
            gw |-> [settings |-> 0, closed |-> FALSE],
            writes |-> 0, closes |-> 0, starts |-> 1]
  /\ mqtt = <<>> /\ store = <<>>

\* A settings update request arrives.
PostSettings(r) ==
  /\ app.pc[r] = "idle"
  /\ app' = postSettings(app, r)
  /\ UNCHANGED <<gwVars, mqtt, store>>

\* jsonStore.put settles.
PutSettled(r, ok) ==
  /\ app.pc[r] = "put"
  /\ app' = putSettled(app, r, ok)
  /\ UNCHANGED <<gwVars, mqtt, store>>

\* gw.close() settles.
CloseSettled(r, ok) ==
  /\ app.pc[r] = "close"
  /\ app' = closeSettled(app, r, ok)
  /\ UNCHANGED <<gwVars, mqtt, store>>

AppNext ==
  \/ \E r \in Requests : PostSettings(r)
  \/ \E r \in Requests : \E ok \in BOOLEAN : PutSettled(r, ok)
  \/ \E r \in Requests : \E ok \in BOOLEAN : CloseSettled(r, ok)

AppSpec == AppInit /\ [][AppNext]_vars

\* The requests between setting the flag and the completion of startGateway.
InProgress(a) == {r \in Requests : a.pc[r] \in {"put", "close"}}

\* C36: at most one settings update is in progress at any time, and a
\* request that arrives while the restarting flag is set is answered with
\* success false and writes no settings, closes no gateway and starts none.
C36_OneRestartAtATime ==
  [][/\ Cardinality(InProgress(app')) <= 1
     /\ \A r \in Requests :
          (app.restarting /\ app.pc[r] = "idle" /\ app'.pc[r] # "idle")
          => /\ app'.response[r] = "error" /\ app'.pc[r] = "done"
             /\ app'.settings = app.settings /\ app'.writes = app.writes
             /\ app'.closes = app.closes /\ app'.starts = app.starts
             /\ app'.gw = app.gw]_vars

\* A request has been refused while another one awaits gw.close(), its
\* settings written.
C36_Witness ==
  \E r, q \in Requests :
    /\ app.pc[r] = "close" /\ app.settings = r
    /\ app.pc[q] = "done" /\ app.response[q] = "error"
    /\ app.writes = 1 /\ app.closes = 0

\* C37: the restarting flag is set only while a settings update is in
\* progress, so that after a failed update a later one is accepted.
C37_FlagResetOnFailure ==
  app.restarting => InProgress(app) # {}

(***************************************************************************)
(* The MQTT client (MqttClient): the connection to the broker, the queue   *)
(* of the subscriptions asked for while it is not connected, close, update *)
(* and the dispatch of the messages received. A topic is the sequence of   *)
(* its levels.                                                             *)
(***************************************************************************)

\* The connections a client may open in all: the first and those of update.
MaxClients == 2

\* The subscriptions that may wait in toSubscribe.
MaxQueue == 2

\* The patterns the gateway passes to subscribe.
MqttTopics == { <<"+", "+", "+", "+">>, <<"+", "+", "+", "+", "+">> }

CLIENTS_PREFIX == "_CLIENTS"
\* MqttClient.ACTIONS.
MqttActions == <<"broadcast", "api", "multicast">>
HASS_WILL == <<"homeassistant", "status">>
ClientId == "ZWAVE_GATEWAY-x"

\* this.config.prefix + '/' + topic + '/set'.
SetTopic(topic) == <<"zwave">> \o topic \o <<"set">>

\* [prefix, CLIENTS_PREFIX, clientID, MqttActions[i], '#'].join('/').
ActionTopic(i) == <<"zwave", CLIENTS_PREFIX, ClientId, MqttActions[i], "#">>

\* The topics of the messages the broker delivers: a write on a value, a
\* broadcast, an api call, a state message (no set) and the status of Home
\* Assistant.
MessageTopics ==
  { <<"zwave", "2", "38", "0", "targetValue", "set">>,
    <<"zwave", CLIENTS_PREFIX, ClientId, "broadcast", "38", "0", "targetValue", "set">>,
    <<"zwave", CLIENTS_PREFIX, ClientId, "api", "getInfo", "set">>,
    <<"zwave", "2", "38", "0", "targetValue">>,
    HASS_WILL }

NoEvent == [event |-> "none", parts |-> <<>>]

\* The ghost fields of a step: the operation, the topic passed to subscribe,
\* the message received and the event emitted for it.
Step(m, op, passing, msg, emitted) ==
  [m EXCEPT !.op = op, !.passing = passing, !.msg = msg, !.emitted = emitted]

\* MqttClient.subscribe(topic): on the broker when the client is connected,
\* into toSubscribe otherwise.
subscribe(m, topic) ==
  IF m.client # 0 /\ m.connected
  THEN [m EXCEPT !.broker = @ \cup {<<m.client, SetTopic(topic)>>}]
  ELSE [m EXCEPT !.toSubscribe = Append(@, topic)]

\* for (const t of topics) this.subscribe(t), from the k-th topic on.
RECURSIVE subscribeTopics(_, _, _)
subscribeTopics(m, topics, k) ==
  IF k > Len(topics) THEN m
  ELSE subscribeTopics(subscribe(m, topics[k]), topics, k + 1)

\* MqttClient._onConnect(): the queued topics, the status topic of Home
\* Assistant and the action topics are subscribed and the queue is emptied.
onConnect(m) ==
  [subscribeTopics(m, m.toSubscribe, 1) EXCEPT
     !.broker = @ \cup {<<m.client, HASS_WILL>>}
                  \cup {<<m.client, ActionTopic(i)>> : i \in 1..Len(MqttActions)},
     !.toSubscribe = <<>>]

\* MqttClient.close(): nothing when the client is already closed; otherwise
\* the connection is ended and the listeners of the client are removed.
close(m) ==
  IF m.closed THEN m
  ELSE [m EXCEPT !.closed = TRUE, !.listeners = FALSE, !.connected = FALSE,
                 !.ended = IF m.client # 0 THEN @ \cup {m.client} ELSE @]

\* MqttClient._init(config): the queue is reset and, unless MQTT is
\* disabled, a new connection is opened.
init(m, disabled) ==
  IF disabled THEN [m EXCEPT !.disabled = TRUE, !.toSubscribe = <<>>]
  ELSE [m EXCEPT !.disabled = FALSE, !.toSubscribe = <<>>,
                 !.client = m.opened + 1, !.opened = @ + 1, !.connected = FALSE]

\* MqttClient.update(config).
update(m, disabled) == init(close(m), disabled)

\* The event _onMessageReceived emits for a message, once it has passed the
\* test of this.closed: topic is the topic of the message and parts its
\* levels without the prefix.
dispatch(topic) ==
  LET parts == Tail(topic)
      body == SubSeq(parts, 1, Len(parts) - 1)
  IN IF topic = HASS_WILL THEN [event |-> "hassStatus", parts |-> <<>>]
     ELSE IF parts = <<>> \/ parts[Len(parts)] # "set" THEN NoEvent
     ELSE IF body # <<>> /\ body[1] = CLIENTS_PREFIX
     THEN IF Len(body) < 3 THEN NoEvent
          ELSE IF body[3] = MqttActions[1]
          THEN [event |-> "broadcastRequest", parts |-> SubSeq(body, 4, Len(body))]
          ELSE IF body[3] = MqttActions[2]
          THEN [event |-> "apiCall", parts |-> body]
          ELSE IF body[3] = MqttActions[3]
          THEN [event |-> "multicastRequest", parts |-> <<>>]
          ELSE NoEvent
     ELSE [event |-> "writeRequest", parts |-> body]

\* The dispatch, had the client not tested this.closed.
onMessageReceivedOpen(m, topic) == dispatch(topic)

\* MqttClient._onMessageReceived(topic, payload).
onMessageReceived(m, topic) ==
  IF m.closed THEN NoEvent ELSE dispatch(topic)

\* The client after its constructor has run, MQTT enabled or disabled.
MqttInit ==
  /\ NoGateway
  /\ \E disabled \in BOOLEAN :
       mqtt = [disabled |-> disabled, client |-> IF disabled THEN 0 ELSE 1,
               opened |-> IF disabled THEN 0 ELSE 1,
               connected |-> FALSE, closed |-> FALSE, listeners |-> TRUE,
               toSubscribe |-> <<>>, broker |-> {}, ended |-> {},
               restarted |-> FALSE,
               op |-> "init", passing |-> <<>>, msg |-> <<>>, emitted |-> NoEvent]
  /\ app = <<>> /\ store = <<>>

\* The gateway asks for a subscription.
Subscribe(topic) ==
  /\ (mqtt.client # 0 /\ mqtt.connected) \/ Len(mqtt.toSubscribe) < MaxQueue
  /\ mqtt' = Step(subscribe(mqtt, topic), "subscribe", topic, <<>>, NoEvent)
  /\ UNCHANGED <<gwVars, app, store>>

\* The connection comes up (the library sets client.connected before it
\* emits 'connect') and _onConnect runs.
Connect ==
  /\ mqtt.client # 0 /\ ~mqtt.connected /\ mqtt.client \notin mqtt.ended
  /\ mqtt' = Step(onConnect([mqtt EXCEPT !.connected = TRUE]),
                  "connect", <<>>, <<>>, NoEvent)
  /\ UNCHANGED <<gwVars, app, store>>

\* The connection is lost.
Offline ==
  /\ mqtt.client # 0 /\ mqtt.connected
  /\ mqtt' = Step([mqtt EXCEPT !.connected = FALSE], "offline", <<>>, <<>>, NoEvent)
  /\ UNCHANGED <<gwVars, app, store>>

\* close() is called.
Close ==
  /\ mqtt.op # "close"
  /\ mqtt' = Step(close(mqtt), "close", <<>>, <<>>, NoEvent)
  /\ UNCHANGED <<gwVars, app, store>>

\* update(config) is called.
Update(disabled) ==
  /\ mqtt.opened < MaxClients
  /\ mqtt' = Step([update(mqtt, disabled) EXCEPT !.restarted = ~disabled],
                  "update", <<>>, <<>>, NoEvent)
  /\ UNCHANGED <<gwVars, app, store>>

\* The connection delivers a message.
MessageReceived(topic) ==
  /\ mqtt.client # 0 /\ mqtt.connected
  /\ mqtt' = Step(mqtt, "message", <<>>, topic, onMessageReceived(mqtt, topic))
  /\ UNCHANGED <<gwVars, app, store>>

MqttNext ==
  \/ \E topic \in MqttTopics : Subscribe(topic)
  \/ Connect
  \/ Offline
  \/ Close
  \/ \E disabled \in BOOLEAN : Update(disabled)
  \/ \E topic \in MessageTopics : MessageReceived(topic)

MqttSpec == MqttInit /\ [][MqttNext]_vars

\* The library retries the connection every reconnectPeriod, so that a
\* client that is not connected and not ended connects in the end.
MqttLiveSpec == MqttSpec /\ WF_vars(Connect)

\* The topic is subscribed on the broker by the connection of the client.
Subscribed(topic) == <<mqtt.client, SetTopic(topic)>> \in mqtt.broker

\* The client has no connection to come: MQTT is disabled, or the connection
\* has been ended and no other opened.
Retired == mqtt.disabled \/ mqtt.client = 0 \/ mqtt.client \in mqtt.ended

\* C38: every topic passed to subscribe is subscribed on the broker in the
\* end, at once when the client is connected and by the connect handler
\* otherwise, as long as the client has a connection to come.
C38_QueuedTopicsSubscribed ==
  \A topic \in MqttTopics :
    (mqtt.passing = topic) ~> (Subscribed(topic) \/ Retired)

\* C39: after update(config) has restarted the client, a message on a /set
\* topic is dispatched as the event of its topic, as before the update, and
\* close() ends the new connection.
C39_OperationalAfterUpdate ==
  [][mqtt.restarted =>
       /\ mqtt'.op = "message" => mqtt'.emitted = dispatch(mqtt'.msg)
       /\ mqtt'.op = "close" => mqtt'.client \in mqtt'.ended]_vars

(***************************************************************************)
(* The UI store (store/mutations.js): state.nodes, the list of the nodes   *)
(* shown, and nodesMap, the index of each node id in the list. A node is   *)
(* its id; 0 is an empty slot of the list (undefined).                     *)
(***************************************************************************)

\* The longest list of nodes the store is driven to.
MaxNodes == 4

\* The ids of the nodes the socket reports.
UiNodeIds == {1, 2, 3}

\* getNode(id): state.nodes[nodesMap.get(id)], undefined when the id has no
\* index or the index is outside the list.
getNode(s, id) ==
  IF id \in DOMAIN s.nodesMap /\ s.nodesMap[id] < Len(s.nodes)
  THEN s.nodes[s.nodesMap[id] + 1] ELSE 0

\* this._vm.$set(state.nodes, index, n): the list is extended to the index
\* when it is shorter, and the element at the index is replaced.
VueSet(list, index, n) ==
  [i \in 1..(IF index + 1 > Len(list) THEN index + 1 ELSE Len(list)) |->
     IF i = index + 1 THEN n ELSE IF i <= Len(list) THEN list[i] ELSE 0]

\* The index initNode stores the node at: the one of nodesMap, or the end of
\* the list.
initIndex(s, id) ==
  IF id \in DOMAIN s.nodesMap THEN s.nodesMap[id] ELSE Len(s.nodes)

\* mutations.initNode(state, n).
initNode(s, id) ==
  [nodes |-> IF initIndex(s, id) = Len(s.nodes) THEN Append(s.nodes, id)
             ELSE VueSet(s.nodes, initIndex(s, id), id),
   nodesMap |-> FunPut(s.nodesMap, id, initIndex(s, id))]

\* state.nodes.splice(index, 1).
Splice(list, index) ==
  IF index >= Len(list) THEN list
  ELSE SubSeq(list, 1, index) \o SubSeq(list, index + 2, Len(list))

\* mutations.removeNode(state, n).
removeNode(s, id) ==
  IF id \in DOMAIN s.nodesMap
  THEN [nodes |-> Splice(s.nodes, s.nodesMap[id]),
        nodesMap |-> FunDel(s.nodesMap, id)]
  ELSE s

\* The store when the UI is loaded: no nodes.
UiInit ==
  /\ NoGateway
  /\ store = [nodes |-> <<>>, nodesMap |-> <<>>]
  /\ app = <<>> /\ mqtt = <<>>

\* The socket reports a node (added or updated).
InitNode(id) ==
  /\ Len(initNode(store, id).nodes) <= MaxNodes
  /\ store' = initNode(store, id)
  /\ UNCHANGED <<gwVars, app, mqtt>>

\* The socket reports that a node was removed.
RemoveNode(id) ==
  /\ store' = removeNode(store, id)
  /\ UNCHANGED <<gwVars, app, mqtt>>

UiNext ==
  \/ \E id \in UiNodeIds : InitNode(id)
  \/ \E id \in UiNodeIds : RemoveNode(id)

UiSpec == UiInit /\ [][UiNext]_vars

\* C40: the id-to-index map is consistent with the list of nodes: the node
\* at the index of every id of the map has that id, and getNode finds every
\* node of the list under its own id.
C40_MapConsistent ==
  /\ \A id \in DOMAIN store.nodesMap : getNode(store, id) = id
  /\ \A i \in 1..Len(store.nodes) :
       store.nodes[i] # 0 => getNode(store, store.nodes[i]) = store.nodes[i]

====
